---- MODULE Spec2Model ----
(***************************************************************************)
(* Verification model of the ace-metrics statistics engine.                *)
(*                                                                         *)
(* Each component is a pure function of its inputs; a component is checked *)
(* under its own specification, whose Init draws the inputs from bounded   *)
(* sets and whose action applies the function and records what it          *)
(* produced.  The variables of the other components stay at NoCall.        *)
(*                                                                         *)
(* Conventions:                                                            *)
(*   - a date is a record [y, m, d]; times of day are not modelled;        *)
(*   - a month key (strftime '%Y%m') is the number 100*year + month, whose *)
(*     numeric order is the lexicographic order of the 6-character text;   *)
(*   - a text (alert type, prefix) is a sequence of characters;            *)
(*   - a python dict is a sequence of <<key, value>> pairs with distinct   *)
(*     keys, in insertion (= iteration) order.                             *)
(***************************************************************************)
EXTENDS Integers, Sequences, FiniteSets, TLC

VARIABLES mk_in, mk_out, cat_in, cat_out, agg_in, agg_out, dbt_out,
          bh_in, bh_out,
          hop_in, hop_out,
          sqlite_db, upd, rd,
          xl_in, xl_out,
          cli_in, cli_out,
          usr_in, usr_out,
          db_file, thread, main,
          co_in, co_out,
          out_in, out_out,
          ex_in, ex_out

vars == <<mk_in, mk_out, cat_in, cat_out, agg_in, agg_out, dbt_out,
          bh_in, bh_out,
          hop_in, hop_out,
          sqlite_db, upd, rd,
          xl_in, xl_out,
          cli_in, cli_out,
          usr_in, usr_out,
          db_file, thread, main,
          co_in, co_out,
          out_in, out_out,
          ex_in, ex_out>>

\* value of the input/output variables of a component that is not called
NoCall == [status |-> "none"]

(***************************************************************************)
(* Bounds                                                                  *)
(***************************************************************************)
MinYear == 2023
MaxYear == 2024
\* days of the month the inputs are drawn from (first, middle, last)
DaySet == {1, 15, 31}
\* most categories of a caller's category map
MaxCats == 2
\* most alerts in the ACE database of the grouping engine
MaxAlerts == 3
\* most alert records handed to the statistics aggregator
MaxRecords == 2

(***************************************************************************)
(* Calendar arithmetic (datetime, dateutil.relativedelta)                  *)
(***************************************************************************)
Date(y, m, d) == [y |-> y, m |-> m, d |-> d]

IsLeap(y) == (y % 4 = 0 /\ y % 100 # 0) \/ (y % 400 = 0)

DaysInMonth(y, m) ==
    IF m = 2 THEN (IF IsLeap(y) THEN 29 ELSE 28)
    ELSE IF m \in {4, 6, 9, 11} THEN 30 ELSE 31

Min2(a, b) == IF a <= b THEN a ELSE b

\* dt + relativedelta(months=1): next month, year carried, day clipped to
\* the length of the new month
AddOneMonth(dt) ==
    LET ny == IF dt.m = 12 THEN dt.y + 1 ELSE dt.y
        nm == IF dt.m = 12 THEN 1 ELSE dt.m + 1
    IN  Date(ny, nm, Min2(dt.d, DaysInMonth(ny, nm)))

\* datetime.strftime(dt, '%Y%m')
MonthKey(dt) == dt.y * 100 + dt.m

\* datetime comparison a <= b, a < b
DateLeq(a, b) ==
    \/ a.y < b.y
    \/ a.y = b.y /\ a.m < b.m
    \/ a.y = b.y /\ a.m = b.m /\ a.d <= b.d

DateLt(a, b) == DateLeq(a, b) /\ a # b

\* number of the month of a date, counted from year 0
MonthOrdinal(dt) == dt.y * 12 + (dt.m - 1)

KeyOfOrdinal(n) == (n \div 12) * 100 + (n % 12) + 1

\* one key per calendar month from a's month through b's month, ascending
KeysFromTo(a, b) ==
    [i \in 1..(MonthOrdinal(b) - MonthOrdinal(a) + 1) |->
        KeyOfOrdinal(MonthOrdinal(a) + i - 1)]

Dates ==
    {dt \in [y : MinYear..MaxYear, m : 1..12, d : DaySet] :
        dt.d <= DaysInMonth(dt.y, dt.m)}

(***************************************************************************)
(* Month-key generator: metrics/helpers.py get_month_keys_between_two_dates*)
(*                                                                         *)
(* The inner `while` ends in an unconditional `break`, so it is an `if`.   *)
(* When the outer condition holds and the inner one does not, an iteration *)
(* changes nothing: the loop never ends.  That outcome is the status       *)
(* "hang"; months is then what had been collected.                         *)
(***************************************************************************)
RECURSIVE month_loop_no_year_guard(_, _, _)
\* mutant: the year comparison of the outer loop is lost
month_loop_no_year_guard(start_date, end_date, months) ==
    IF start_date.m <= end_date.m /\ start_date.y <= MaxYear + 1
    THEN month_loop_no_year_guard(AddOneMonth(start_date), end_date,
                                  Append(months, MonthKey(start_date)))
    ELSE [status |-> "returned", months |-> months]

RECURSIVE month_loop(_, _, _)
month_loop(start_date, end_date, months) ==
    IF ~(start_date.y <= end_date.y)
    THEN [status |-> "returned", months |-> months]
    ELSE IF start_date.m <= end_date.m
         THEN month_loop(AddOneMonth(start_date), end_date,
                         Append(months, MonthKey(start_date)))
         ELSE [status |-> "hang", months |-> months]

get_month_keys_between_two_dates(start_date, end_date) ==
    month_loop(start_date, end_date, <<>>)

(***************************************************************************)
(* Python lists and dicts                                                  *)
(***************************************************************************)
\* x in li
InList(x, li) == \E i \in 1..Len(li) : li[i] = x

\* set(li)
SetOfList(li) == {li[i] : i \in 1..Len(li)}

\* the lists that hold every element of the set S exactly once: the orders
\* in which a set, or a DISTINCT query, may hand out its elements
ListsOfSet(S) ==
    {li \in [1..Cardinality(S) -> S] : SetOfList(li) = S}

\* d.keys()
DictKeys(d) == [i \in 1..Len(d) |-> d[i][1]]

HasKey(d, k) == \E i \in 1..Len(d) : d[i][1] = k

\* d[k], for a key the dict has
DictGet(d, k) == d[CHOOSE i \in 1..Len(d) : d[i][1] = k][2]

\* d[k] = v: an existing key keeps its place, a new key goes to the end
DictSet(d, k, v) ==
    IF HasKey(d, k)
    THEN [i \in 1..Len(d) |-> IF d[i][1] = k THEN <<k, v>> ELSE d[i]]
    ELSE Append(d, <<k, v>>)

\* at.startswith(_id)
startswith(at, _id) ==
    /\ Len(_id) <= Len(at)
    /\ SubSeq(at, 1, Len(_id)) = _id

(***************************************************************************)
(* Category/type grouping:                                                 *)
(* ace_metrics/alerts/alert_types.py                                       *)
(* alert_type_quantities_by_category_by_month                              *)
(*                                                                         *)
(* The ACE database is a set of alerts [alert_type, month]; month is the   *)
(* key of the month of insert_date.                                        *)
(***************************************************************************)
\* select DISTINCT alert_type from alerts WHERE insert_date BETWEEN the two
\* dates (at the granularity of months): the set the query lists
unique_alert_types_between_dates(start_date, end_date, con) ==
    {a.alert_type : a \in {x \in con : /\ MonthKey(start_date) <= x.month
                                       /\ x.month <= MonthKey(end_date)}}

\* lines 221-224: the identifiers of one category tried on one alert type;
\* every identifier that matches appends (there is no break)
RECURSIVE for_identifiers(_, _, _, _, _)
for_identifiers(st, category, at, at_identifers, i) ==
    IF i > Len(at_identifers) THEN st
    ELSE LET st1 ==
               IF startswith(at, at_identifers[i])
               THEN [map |-> DictSet(st.map, category,
                                     Append(DictGet(st.map, category), at)),
                     raw_at_accounted_for |-> Append(st.raw_at_accounted_for, at)]
               ELSE st
         IN  for_identifiers(st1, category, at, at_identifers, i + 1)

RECURSIVE for_alert_types(_, _, _, _, _)
\* mutant: an alert type already accounted for is tried again
for_alert_types_no_skip(st, category, at_identifers, alert_types, j) ==
    IF j > Len(alert_types) THEN st
    ELSE for_alert_types(
             for_identifiers(st, category, alert_types[j], at_identifers, 1),
             category, at_identifers, alert_types, j + 1)

\* lines 218-224: the alert types tried on one category
for_alert_types(st, category, at_identifers, alert_types, j) ==
    IF j > Len(alert_types) THEN st
    ELSE LET at == alert_types[j]
             st1 == IF InList(at, st.raw_at_accounted_for)
                    THEN st
                    ELSE for_identifiers(st, category, at, at_identifers, 1)
         IN  for_alert_types(st1, category, at_identifers, alert_types, j + 1)

\* lines 217-224: the categories in the iteration order of the caller's dict
RECURSIVE for_categories(_, _, _, _)
for_categories(st, alert_type_categories_key, alert_types, c) ==
    IF c > Len(alert_type_categories_key) THEN st
    ELSE for_categories(
             for_alert_types(st, alert_type_categories_key[c][1],
                             alert_type_categories_key[c][2], alert_types, 1),
             alert_type_categories_key, alert_types, c + 1)

\* lines 215-224
categorize_alert_types(alert_type_categories_key, alert_types) ==
    for_categories(
        [map |-> [i \in 1..Len(alert_type_categories_key) |->
                     <<alert_type_categories_key[i][1], <<>>>>],
         raw_at_accounted_for |-> <<>>],
        alert_type_categories_key, alert_types, 1)

\* lines 226-229: _diff(raw_at_accounted_for, alert_types), as a set; the
\* list made of it has the order of Python's set iteration
uncategorized_alert_types(raw_at_accounted_for, alert_types) ==
    (SetOfList(raw_at_accounted_for) \ SetOfList(alert_types))
        \cup (SetOfList(alert_types) \ SetOfList(raw_at_accounted_for))

\* mutant: "other" is added even when nothing is uncategorized
add_other_always(map, uncategorized) == DictSet(map, "other", uncategorized)

\* lines 230-231
add_other(map, uncategorized) ==
    IF uncategorized # <<>> THEN DictSet(map, "other", uncategorized) ELSE map

\* ALERTS_BY_MONTH_AND_TYPE_QUERY run with [month] + atypes, then
\* cursor.fetchone(): one row holding the number of alerts of that month
\* whose alert type is one of atypes
fetch_month_type_count(con, month, atypes) ==
    <<Cardinality({a \in con : a.month = month /\ InList(a.alert_type, atypes)})>>

RECURSIVE month_data_of(_, _, _, _, _)
\* mutant: the cell is set to 0 only after the test for an empty category
month_data_zero_after_continue(month_data, con, atypes, months, k) ==
    IF k > Len(months) THEN month_data
    ELSE LET month == months[k]
             stats == fetch_month_type_count(con, month, atypes)
             md1 == IF atypes = <<>> THEN month_data
                    ELSE IF stats # <<>> THEN DictSet(month_data, month, stats[1])
                    ELSE DictSet(month_data, month, 0)
         IN  month_data_of(md1, con, atypes, months, k + 1)

\* lines 237-247: the cells of one category, month by month
month_data_of(month_data, con, atypes, months, k) ==
    IF k > Len(months) THEN month_data
    ELSE LET month == months[k]
             md0 == DictSet(month_data, month, 0)
             stats == fetch_month_type_count(con, month, atypes)
             md1 == IF atypes = <<>> THEN md0
                    ELSE IF stats # <<>> THEN DictSet(md0, month, stats[1])
                    ELSE md0
         IN  month_data_of(md1, con, atypes, months, k + 1)

\* lines 235-248
build_data(alert_type_categories_map, con, months) ==
    [c \in 1..Len(alert_type_categories_map) |->
        <<alert_type_categories_map[c][1],
          month_data_of(<<>>, con, alert_type_categories_map[c][2], months, 1)>>]

\* the index of pd.DataFrame(data=dict of dicts): the union of the keys of
\* the inner dicts, in the order of first appearance
RECURSIVE index_union(_, _, _)
index_union(data, c, acc) ==
    IF c > Len(data) THEN acc
    ELSE LET ks == DictKeys(data[c][2])
             fresh == SelectSeq(ks, LAMBDA m : ~InList(m, acc))
         IN  index_union(data, c + 1, acc \o fresh)

\* line 250: pd.DataFrame(data); a cell is <<value>>, or <<>> (NaN) where
\* the inner dict of the column has no entry for the month
DataFrame(data) ==
    LET index == index_union(data, 1, <<>>)
    IN  [columns |-> DictKeys(data),
         index |-> index,
         cell |-> [c \in 1..Len(data) |->
                     [m \in SetOfList(index) |->
                         IF HasKey(data[c][2], m)
                         THEN <<DictGet(data[c][2], m)>> ELSE <<>>]]]

\* lines 252-255: fillna(value=0), and the float columns that NaN had made
\* cast back to int: every cell is a plain integer
fillna_astype_int(df) ==
    [columns |-> df.columns,
     index |-> df.index,
     cell |-> [c \in DOMAIN df.cell |->
                 [m \in DOMAIN df.cell[c] |->
                     IF df.cell[c][m] = <<>> THEN 0 ELSE df.cell[c][m][1]]]]

\* the whole function, for one order alert_types of the observed types and
\* one order other_order of the uncategorized ones
alert_type_quantities_by_category_by_month(start_date, end_date, con, alert_type_categories_key, alert_types, other_order) ==
    LET mk == get_month_keys_between_two_dates(start_date, end_date)
        st == categorize_alert_types(alert_type_categories_key, alert_types)
        final == add_other(st.map, other_order)
    IN  IF mk.status = "hang" THEN [status |-> "hang"]
        ELSE [status |-> "returned",
              months |-> mk.months,
              alert_types |-> alert_types,
              categorized |-> st.map,
              raw_at_accounted_for |-> st.raw_at_accounted_for,
              alert_type_categories_map |-> final,
              table |-> fillna_astype_int(
                           DataFrame(build_data(final, con, mk.months)))]

(***************************************************************************)
(* Statistics aggregator (statistics_by_month_by_dispo of                  *)
(* ace_metrics/alerts/__init__.py), with the month-key generator, the      *)
(* disposition categorizer and the business-time calculator it uses, as    *)
(* the design document describes them (sections 3, 4.1 to 4.4).            *)
(*                                                                         *)
(* A timestamp is [y, m, h]: h is the number of whole hours since the      *)
(* start of the month.  NULL is an absent timestamp or range, None an      *)
(* absent disposition.  Hours are integers; a                              *)
(* mean is an exact fraction [n, d] in lowest terms; the cell of the       *)
(* standard-deviation table holds the fraction whose square root the       *)
(* deviation is (the population variance), which is 0/1 exactly when the   *)
(* deviation is 0.                                                         *)
(***************************************************************************)
NULL == [null |-> TRUE]

None == "None"

Timestamp(y, m, h) == [y |-> y, m |-> m, h |-> h]

\* the year the hours of a timestamp are counted from
EpochYear == 2023

\* the days from 1 January of EpochYear to the first day of month m of year y
RECURSIVE DaysBefore(_, _)
DaysBefore(y, m) ==
    IF y <= EpochYear /\ m = 1 THEN 0
    ELSE LET py == IF m = 1 THEN y - 1 ELSE y
             pm == IF m = 1 THEN 12 ELSE m - 1
         IN  DaysBefore(py, pm) + DaysInMonth(py, pm)

\* whole hours from 1 January of EpochYear, 00:00, to the timestamp
AbsHour(ts) == 24 * DaysBefore(ts.y, ts.m) + ts.h

\* 1 January 2023 is a Sunday; days of the week are 0 (Monday) .. 6 (Sunday)
WeekdayOfEpoch == 6

WeekdayOfDay(day) == (day + WeekdayOfEpoch) % 7

Disabled == [enabled |-> FALSE]

BusinessTimeWindow(start_hour, end_hour, holidays) ==
    [enabled |-> TRUE, start_hour |-> start_hour, end_hour |-> end_hour,
     holidays |-> holidays]

\* IsBusinessDay without weekends and holidays
every_day_is_business_day(day, window) == TRUE

IsBusinessDay(day, window) ==
    WeekdayOfDay(day) \in 0..4 /\ day \notin window.holidays

\* Clamp without the upper bound
clamp_below_only(x, lo, hi) == IF x < lo THEN lo ELSE x

Clamp(x, lo, hi) == IF x < lo THEN lo ELSE IF x > hi THEN hi ELSE x

\* the business days among the days 0 .. day-1: five in every whole week,
\* the weekdays of the days left over, less the holidays on weekdays
BusinessDaysBefore(day, window) ==
    5 * (day \div 7)
    + Cardinality({d \in (day - (day % 7))..(day - 1) : WeekdayOfDay(d) \in 0..4})
    - Cardinality({h \in window.holidays : h < day /\ WeekdayOfDay(h) \in 0..4})

\* business hours in [0, t) counted from 1 January of EpochYear, 00:00
BusinessHoursUpTo(t, window) ==
    LET day == t \div 24
        per_day == window.end_hour - window.start_hour
    IN  per_day * BusinessDaysBefore(day, window)
        + (IF IsBusinessDay(day, window)
           THEN Clamp((t % 24) - window.start_hour, 0, per_day) ELSE 0)

\* section 4.1: the raw elapsed hours when the window is disabled, else the
\* part of them inside the daily window on business days
elapsed_business_hours(start, end, window) ==
    IF AbsHour(end) < AbsHour(start) THEN [error |-> "InvalidRangeError"]
    ELSE IF ~window.enabled THEN AbsHour(end) - AbsHour(start)
    ELSE BusinessHoursUpTo(AbsHour(end), window)
            - BusinessHoursUpTo(AbsHour(start), window)

\* section 4.2: months_between
months_between(start_date, end_date) ==
    IF DateLt(end_date, start_date) THEN [status |-> "InvalidRangeError"]
    ELSE [status |-> "returned", months |-> KeysFromTo(start_date, end_date)]

\* section 3: the closed list of disposition categories
DISPOSITION_CATEGORIES ==
    <<"false_positive", "policy_violation", "reconnaissance", "weaponization",
      "delivery", "exploitation", "installation", "command_and_control",
      "exfil", "damage", "grayware", "undispositioned">>

\* mutant: a record without a known disposition gets no category
categorize_dropping_unknown(record) ==
    IF record.disposition # None /\ InList(record.disposition, DISPOSITION_CATEGORIES)
    THEN record.disposition
    ELSE "none"

\* section 4.3: categorize
categorize(record) ==
    IF record.disposition # None /\ InList(record.disposition, DISPOSITION_CATEGORIES)
    THEN record.disposition
    ELSE "undispositioned"

VALID_ALERT_STATS ==
    <<"alert_count", "cycle_time_sum", "cycle_time_mean", "cycle_time_min",
      "cycle_time_max", "cycle_time_std">>

RECURSIVE GCD(_, _)
GCD(a, b) == IF b = 0 THEN a ELSE GCD(b, a % b)

\* the fraction n/d (n >= 0, d > 0) in lowest terms
Fraction(n, d) == [n |-> n \div GCD(n, d), d |-> d \div GCD(n, d)]

EmptyBucket == [count |-> 0, timed |-> 0, sum |-> 0, sum_sq |-> 0,
                min |-> 0, max |-> 0]

\* mutant: a record without disposition timestamp enters the cycle-time
\* statistics with a cycle time of 0
accumulate_null_as_zero(bucket, record, window) ==
    LET ct == IF record.disposition_date = NULL THEN 0
              ELSE elapsed_business_hours(record.insert_date,
                                          record.disposition_date, window)
    IN  [count |-> bucket.count + 1,
         timed |-> bucket.timed + 1,
         sum |-> bucket.sum + ct,
         sum_sq |-> bucket.sum_sq + ct * ct,
         min |-> IF bucket.timed = 0 \/ ct < bucket.min THEN ct ELSE bucket.min,
         max |-> IF bucket.timed = 0 \/ ct > bucket.max THEN ct ELSE bucket.max]

\* section 4.4 steps 3 and 4: one record added to the bucket of its month
\* and category; only a record with a disposition timestamp adds to the
\* cycle-time accumulators
accumulate(bucket, record, window) ==
    IF record.disposition_date = NULL
    THEN [bucket EXCEPT !.count = @ + 1]
    ELSE LET ct == elapsed_business_hours(record.insert_date,
                                          record.disposition_date, window)
         IN  [count |-> bucket.count + 1,
              timed |-> bucket.timed + 1,
              sum |-> bucket.sum + ct,
              sum_sq |-> bucket.sum_sq + ct * ct,
              min |-> IF bucket.timed = 0 \/ ct < bucket.min THEN ct ELSE bucket.min,
              max |-> IF bucket.timed = 0 \/ ct > bucket.max THEN ct ELSE bucket.max]

\* mutant: a record is binned by the month of its disposition when it has
\* one
bin_month_by_disposition(record) ==
    IF record.disposition_date = NULL THEN MonthKey(record.insert_date)
    ELSE MonthKey(record.disposition_date)

\* section 4.4 step 2: the month a record is binned in
bin_month(record) == MonthKey(record.insert_date)

\* section 4.4 steps 2 to 4: the single pass over the records; a record
\* whose month is not on the axis is left out
RECURSIVE accumulate_all(_, _, _, _, _)
accumulate_all(buckets, records, axis, window, i) ==
    IF i > Len(records) THEN buckets
    ELSE LET record == records[i]
             cell == <<bin_month(record), categorize(record)>>
         IN  accumulate_all(
                 IF cell \in DOMAIN buckets
                 THEN [buckets EXCEPT ![cell] = accumulate(@, record, window)]
                 ELSE buckets,
                 records, axis, window, i + 1)

\* mutant: the mean of a cell without cycle times is 0/0
finalize_unguarded_mean(stat, b) ==
    CASE stat = "alert_count" -> b.count
      [] stat = "cycle_time_sum" -> b.sum
      [] stat = "cycle_time_min" -> b.min
      [] stat = "cycle_time_max" -> b.max
      [] stat = "cycle_time_mean" ->
            IF b.timed = 0 THEN [n |-> 0, d |-> 0] ELSE Fraction(b.sum, b.timed)
      [] stat = "cycle_time_std" ->
            IF b.timed = 0 THEN Fraction(0, 1)
            ELSE LET radicand == b.timed * b.sum_sq - b.sum * b.sum
                 IN  Fraction(IF radicand < 0 THEN 0 ELSE radicand,
                              b.timed * b.timed)

\* section 4.4 step 5: the value of a cell of the table of one statistic
finalize(stat, b) ==
    CASE stat = "alert_count" -> b.count
      [] stat = "cycle_time_sum" -> b.sum
      [] stat = "cycle_time_min" -> b.min
      [] stat = "cycle_time_max" -> b.max
      [] stat = "cycle_time_mean" ->
            IF b.timed = 0 THEN Fraction(0, 1) ELSE Fraction(b.sum, b.timed)
      [] stat = "cycle_time_std" ->
            IF b.timed = 0 THEN Fraction(0, 1)
            ELSE LET radicand == b.timed * b.sum_sq - b.sum * b.sum
                 IN  Fraction(IF radicand < 0 THEN 0 ELSE radicand,
                              b.timed * b.timed)

\* mutant: the rows are the months that have records
rows_of_data_only(axis, records) ==
    SelectSeq(axis, LAMBDA month :
        \E i \in 1..Len(records) : MonthKey(records[i].insert_date) = month)

\* section 4.4 step 6: the rows of every table are the whole axis
rows_of(axis, records) == axis

\* section 4.4 step 1: the month axis, of the supplied range or else from
\* the earliest to the latest insertion month observed
month_axis(records, range) ==
    IF range # NULL THEN months_between(range.start_date, range.end_date)
    ELSE IF records = <<>> THEN [status |-> "returned", months |-> <<>>]
    ELSE LET keys == {MonthKey(records[i].insert_date) : i \in 1..Len(records)}
             lo == CHOOSE k \in keys : \A j \in keys : k <= j
             hi == CHOOSE k \in keys : \A j \in keys : j <= k
         IN  months_between(Date(lo \div 100, lo % 100, 1),
                            Date(hi \div 100, hi % 100, 1))

\* section 4.4: aggregate; the result maps each statistic to its StatTable
aggregate(records, range, window) ==
    IF \E i \in 1..Len(records) : records[i].insert_date = NULL
    THEN [status |-> "MissingFieldError"]
    ELSE LET axis == month_axis(records, range)
         IN  IF axis.status = "InvalidRangeError"
             THEN [status |-> "InvalidRangeError"]
             ELSE LET rows == rows_of(axis.months, records)
                      cells == SetOfList(rows) \X SetOfList(DISPOSITION_CATEGORIES)
                      buckets == accumulate_all([c \in cells |-> EmptyBucket],
                                                records, axis.months, window, 1)
                  IN  [status |-> "returned",
                       tables |->
                          [stat \in SetOfList(VALID_ALERT_STATS) |->
                              [index |-> rows,
                               columns |-> DISPOSITION_CATEGORIES,
                               cell |-> [c \in cells |-> finalize(stat, buckets[c])]]]]

(***************************************************************************)
(* The statistic tables of the dashboard database:                         *)
(* ace_metrics/plotly_dash/database.py get_alert_tables_by_month, lines    *)
(* 74-82                                                                   *)
(***************************************************************************)
\* whole hours from 1 January of EpochYear, 00:00, to the start of a date
AbsHourOfDate(dt) == 24 * (DaysBefore(dt.y, dt.m) + dt.d - 1)

\* line 74, get_alerts_between_dates: the alerts whose insert_date lies
\* between the two dates
get_alerts_between_dates(start_date, end_date, db) ==
    SelectSeq(db, LAMBDA a :
        /\ a.insert_date # NULL
        /\ AbsHourOfDate(start_date) <= AbsHour(a.insert_date)
        /\ AbsHour(a.insert_date) <= AbsHourOfDate(end_date))

\* line 81: f"{stat}_BH"
BH_NAME ==
    [cycle_time_sum |-> "cycle_time_sum_BH", cycle_time_mean |-> "cycle_time_mean_BH",
     cycle_time_min |-> "cycle_time_min_BH", cycle_time_max |-> "cycle_time_max_BH",
     cycle_time_std |-> "cycle_time_std_BH"]

\* lines 77-82: the statistics without and with business hours; the time
\* statistics of the latter are renamed, its alert_count replaces the
\* former's in the union
merge_stat_maps(alert_stat_map, alert_stat_map_bh) ==
    LET time_stats == DOMAIN BH_NAME
        renamed == {BH_NAME[stat] : stat \in time_stats}
    IN  [name \in DOMAIN alert_stat_map \cup (DOMAIN alert_stat_map_bh \ time_stats)
                    \cup renamed |->
            IF name \in renamed
            THEN alert_stat_map_bh[CHOOSE stat \in time_stats : BH_NAME[stat] = name]
            ELSE IF name \in DOMAIN alert_stat_map_bh \ time_stats
                 THEN alert_stat_map_bh[name]
                 ELSE alert_stat_map[name]]

\* lines 74-82 (with an empty alert_data_exception_list)
stat_tables_by_month(start_date, end_date, db, business_hours) ==
    LET alerts == get_alerts_between_dates(start_date, end_date, db)
        alert_stat_map == aggregate(alerts, NULL, Disabled)
        alert_stat_map_bh == aggregate(alerts, NULL, business_hours)
    IN  [status |-> "returned",
         alerts |-> alerts,
         database_table_map |->
             merge_stat_maps(alert_stat_map.tables, alert_stat_map_bh.tables)]

(***************************************************************************)
(* Specification of the month-key generator                                *)
(***************************************************************************)
InitMonths ==
    /\ mk_in \in [start_date : Dates, end_date : Dates]
    /\ mk_out = NoCall
    /\ cat_in = NoCall /\ cat_out = NoCall
    /\ agg_in = NoCall /\ agg_out = NoCall /\ dbt_out = NoCall
    /\ bh_in = NoCall /\ bh_out = NoCall
    /\ hop_in = NoCall /\ hop_out = NoCall
    /\ sqlite_db = NoCall /\ upd = NoCall /\ rd = NoCall
    /\ xl_in = NoCall /\ xl_out = NoCall
    /\ cli_in = NoCall /\ cli_out = NoCall
    /\ usr_in = NoCall /\ usr_out = NoCall
    /\ db_file = NoCall /\ thread = NoCall /\ main = NoCall
    /\ co_in = NoCall /\ co_out = NoCall
    /\ out_in = NoCall /\ out_out = NoCall
    /\ ex_in = NoCall /\ ex_out = NoCall

CallMonthKeys ==
    /\ mk_out = NoCall
    /\ mk_out' = get_month_keys_between_two_dates(mk_in.start_date, mk_in.end_date)
    /\ UNCHANGED <<mk_in, cat_in, cat_out, agg_in, agg_out, dbt_out,
                  bh_in, bh_out,
                  hop_in, hop_out,
                  sqlite_db, upd, rd,
                  xl_in, xl_out,
                  cli_in, cli_out,
                  usr_in, usr_out,
                  db_file, thread, main,
                  co_in, co_out,
                  out_in, out_out,
                  ex_in, ex_out>>

NextMonths == CallMonthKeys

SpecMonths == InitMonths /\ [][NextMonths]_vars

(***************************************************************************)
(* Specification of the category/type grouping engine                      *)
(***************************************************************************)
\* alert types and identifier prefixes, as sequences of their parts
email_scanner_v1 == <<"email_", "scanner_", "v1">>
ids_snort == <<"ids_", "snort">>
custom_tool_x == <<"custom_", "tool_x">>
email_ == <<"email_">>
email_scanner_ == <<"email_", "scanner_">>
ids_ == <<"ids_">>

AlertTypeTexts == {email_scanner_v1, ids_snort, custom_tool_x}

\* the identifier lists a category of the caller's map may have
IdLists == {<<email_scanner_>>, <<ids_>>, <<email_>>, <<email_, email_scanner_>>}

CategoryNames == {"phish", "network", "other"}

\* the caller's category maps: up to MaxCats categories with distinct names
CategoryKeys ==
    UNION {{ck \in [1..n -> CategoryNames \X IdLists] :
               \A i, j \in 1..n : ck[i][1] = ck[j][1] => i = j} : n \in 0..MaxCats}

\* date ranges of the calls; the second one ends in a month other than
\* December
CatRanges ==
    {<<Date(2024, 11, 1), Date(2024, 12, 31)>>,
     <<Date(2024, 12, 1), Date(2024, 12, 31)>>,
     <<Date(2024, 10, 1), Date(2024, 11, 30)>>}

CatDbMonths == {202411, 202412}

CatDatabases ==
    {con \in SUBSET [alert_type : AlertTypeTexts, month : CatDbMonths] :
        Cardinality(con) <= MaxAlerts}

InitCat ==
    /\ cat_in \in [start_date : {r[1] : r \in CatRanges},
                   end_date : {r[2] : r \in CatRanges},
                   con : CatDatabases,
                   alert_type_categories_key : CategoryKeys]
    /\ <<cat_in.start_date, cat_in.end_date>> \in CatRanges
    /\ cat_out = NoCall
    /\ mk_in = NoCall /\ mk_out = NoCall
    /\ agg_in = NoCall /\ agg_out = NoCall /\ dbt_out = NoCall
    /\ bh_in = NoCall /\ bh_out = NoCall
    /\ hop_in = NoCall /\ hop_out = NoCall
    /\ sqlite_db = NoCall /\ upd = NoCall /\ rd = NoCall
    /\ xl_in = NoCall /\ xl_out = NoCall
    /\ cli_in = NoCall /\ cli_out = NoCall
    /\ usr_in = NoCall /\ usr_out = NoCall
    /\ db_file = NoCall /\ thread = NoCall /\ main = NoCall
    /\ co_in = NoCall /\ co_out = NoCall
    /\ out_in = NoCall /\ out_out = NoCall
    /\ ex_in = NoCall /\ ex_out = NoCall

CallCategories ==
    /\ cat_out = NoCall
    /\ \E alert_types \in ListsOfSet(unique_alert_types_between_dates(
                               cat_in.start_date, cat_in.end_date, cat_in.con)) :
         LET st == categorize_alert_types(cat_in.alert_type_categories_key,
                                          alert_types)
         IN  \E other_order \in ListsOfSet(uncategorized_alert_types(
                                    st.raw_at_accounted_for, alert_types)) :
                cat_out' = alert_type_quantities_by_category_by_month(
                               cat_in.start_date, cat_in.end_date, cat_in.con,
                               cat_in.alert_type_categories_key,
                               alert_types, other_order)
    /\ UNCHANGED <<cat_in, mk_in, mk_out, agg_in, agg_out, dbt_out,
                  bh_in, bh_out,
                  hop_in, hop_out,
                  sqlite_db, upd, rd,
                  xl_in, xl_out,
                  cli_in, cli_out,
                  usr_in, usr_out,
                  db_file, thread, main,
                  co_in, co_out,
                  out_in, out_out,
                  ex_in, ex_out>>

NextCat == CallCategories

SpecCat == InitCat /\ [][NextCat]_vars

(***************************************************************************)
(* Specification of the statistics aggregator                              *)
(***************************************************************************)
\* the months alert records are inserted in
AggInsertMonths == {<<2023, 12>>, <<2024, 1>>, <<2024, 2>>, <<2024, 3>>}

\* dispositions of the records: one of the list, and one that is not
AggDispositions == {"false_positive", "bogus"}

NextMonthOf(ym) == IF ym[2] = 12 THEN <<ym[1] + 1, 1>> ELSE <<ym[1], ym[2] + 1>>

\* records inserted at the start of a month: not dispositioned, or
\* dispositioned 10 hours later or at the start of the next month
AggDisposedRecords ==
    {[insert_date |-> Timestamp(ym[1], ym[2], 0),
      disposition |-> dispo,
      disposition_date |->
          IF late THEN Timestamp(NextMonthOf(ym)[1], NextMonthOf(ym)[2], 0)
          ELSE Timestamp(ym[1], ym[2], 10)] :
        ym \in AggInsertMonths, dispo \in AggDispositions, late \in BOOLEAN}

AggOpenRecords ==
    {[insert_date |-> Timestamp(ym[1], ym[2], 0),
      disposition |-> None,
      disposition_date |-> NULL] : ym \in AggInsertMonths}

\* a record without insertion timestamp
AggBrokenRecord ==
    [insert_date |-> NULL, disposition |-> None, disposition_date |-> NULL]

AggRecords == AggDisposedRecords \cup AggOpenRecords \cup {AggBrokenRecord}

AggRanges ==
    {NULL,
     [start_date |-> Date(2024, 1, 1), end_date |-> Date(2024, 3, 31)],
     [start_date |-> Date(2024, 2, 15), end_date |-> Date(2024, 3, 1)],
     [start_date |-> Date(2024, 3, 1), end_date |-> Date(2024, 1, 31)]}

AggWindows == {Disabled, BusinessTimeWindow(6, 18, {})}

InitAgg ==
    /\ agg_in \in [records : UNION {[1..n -> AggRecords] : n \in 0..MaxRecords},
                   range : AggRanges,
                   window : AggWindows]
    /\ agg_out = NoCall /\ dbt_out = NoCall
    /\ mk_in = NoCall /\ mk_out = NoCall
    /\ cat_in = NoCall /\ cat_out = NoCall
    /\ bh_in = NoCall /\ bh_out = NoCall
    /\ hop_in = NoCall /\ hop_out = NoCall
    /\ sqlite_db = NoCall /\ upd = NoCall /\ rd = NoCall
    /\ xl_in = NoCall /\ xl_out = NoCall
    /\ cli_in = NoCall /\ cli_out = NoCall
    /\ usr_in = NoCall /\ usr_out = NoCall
    /\ db_file = NoCall /\ thread = NoCall /\ main = NoCall
    /\ co_in = NoCall /\ co_out = NoCall
    /\ out_in = NoCall /\ out_out = NoCall
    /\ ex_in = NoCall /\ ex_out = NoCall

\* a direct call of the aggregator
CallAggregate ==
    /\ agg_out = NoCall
    /\ agg_out' = aggregate(agg_in.records, agg_in.range, agg_in.window)
    /\ UNCHANGED <<agg_in, dbt_out, mk_in, mk_out, cat_in, cat_out,
                  bh_in, bh_out,
                  hop_in, hop_out,
                  sqlite_db, upd, rd,
                  xl_in, xl_out,
                  cli_in, cli_out,
                  usr_in, usr_out,
                  db_file, thread, main,
                  co_in, co_out,
                  out_in, out_out,
                  ex_in, ex_out>>

\* get_alert_tables_by_month, lines 57-82: the records of agg_in are the
\* alerts of the ACE database, the range is [start_date, end_date] (never
\* inverted: start_date is end_date less some months) and the window is
\* define_business_time()
CallStatTablesByMonth ==
    /\ dbt_out = NoCall
    /\ agg_in.range # NULL
    /\ DateLeq(agg_in.range.start_date, agg_in.range.end_date)
    /\ agg_in.window.enabled
    /\ dbt_out' = stat_tables_by_month(agg_in.range.start_date, agg_in.range.end_date,
                                       agg_in.records, agg_in.window)
    /\ UNCHANGED <<agg_in, agg_out, mk_in, mk_out, cat_in, cat_out,
                  bh_in, bh_out,
                  hop_in, hop_out,
                  sqlite_db, upd, rd,
                  xl_in, xl_out,
                  cli_in, cli_out,
                  usr_in, usr_out,
                  db_file, thread, main,
                  co_in, co_out,
                  out_in, out_out,
                  ex_in, ex_out>>

NextAgg == CallAggregate \/ CallStatTablesByMonth

SpecAgg == InitAgg /\ [][NextAgg]_vars

(***************************************************************************)
(* Specification of the business-time calculator                           *)
(***************************************************************************)
\* the days, from Thursday 1 February 2024 on, of the timestamps
BhDays == 5

BhHoursOfDay == {0, 7, 12, 18, 23}

BhTimestamps ==
    {Timestamp(2024, 2, 24 * d + h) : d \in 0..(BhDays - 1), h \in BhHoursOfDay}

\* Friday 2 February 2024 as a holiday
BhHoliday == DaysBefore(2024, 2) + 1

BhWindows ==
    {Disabled, BusinessTimeWindow(6, 18, {}), BusinessTimeWindow(9, 17, {BhHoliday})}

InitBH ==
    /\ bh_in \in [start : BhTimestamps, end1 : BhTimestamps, end2 : BhTimestamps,
                  window : BhWindows]
    /\ bh_out = NoCall
    /\ mk_in = NoCall /\ mk_out = NoCall
    /\ cat_in = NoCall /\ cat_out = NoCall
    /\ agg_in = NoCall /\ agg_out = NoCall /\ dbt_out = NoCall
    /\ hop_in = NoCall /\ hop_out = NoCall
    /\ sqlite_db = NoCall /\ upd = NoCall /\ rd = NoCall
    /\ xl_in = NoCall /\ xl_out = NoCall
    /\ cli_in = NoCall /\ cli_out = NoCall
    /\ usr_in = NoCall /\ usr_out = NoCall
    /\ db_file = NoCall /\ thread = NoCall /\ main = NoCall
    /\ co_in = NoCall /\ co_out = NoCall
    /\ out_in = NoCall /\ out_out = NoCall
    /\ ex_in = NoCall /\ ex_out = NoCall

\* elapsed_business_hours from one start to two ends
CallElapsed ==
    /\ bh_out = NoCall
    /\ bh_out' =
          IF \/ AbsHour(bh_in.end1) < AbsHour(bh_in.start)
             \/ AbsHour(bh_in.end2) < AbsHour(bh_in.start)
          THEN [status |-> "InvalidRangeError"]
          ELSE [status |-> "returned",
                elapsed1 |-> elapsed_business_hours(bh_in.start, bh_in.end1, bh_in.window),
                elapsed2 |-> elapsed_business_hours(bh_in.start, bh_in.end2, bh_in.window)]
    /\ UNCHANGED <<bh_in, mk_in, mk_out, cat_in, cat_out, agg_in, agg_out, dbt_out,
                  hop_in, hop_out,
                  sqlite_db, upd, rd,
                  xl_in, xl_out,
                  cli_in, cli_out,
                  usr_in, usr_out,
                  db_file, thread, main,
                  co_in, co_out,
                  out_in, out_out,
                  ex_in, ex_out>>

NextBH == CallElapsed

SpecBH == InitBH /\ [][NextBH]_vars

(***************************************************************************)
(* Hours-of-operation summary (generate_hours_of_operation_summary_table   *)
(* of ace_metrics/alerts/__init__.py), as section 4.6 of the               *)
(* specification describes it; the column names are those that             *)
(* ace_metrics/plotly_dash/pages/hours_of_operation.py reads               *)
(***************************************************************************)
HOP_BUCKETS == <<"bh_day", "nights", "weekend">>

QUANTITY_COLUMN ==
    [bh_day |-> "bh_day_quantities", nights |-> "nights_quantities",
     weekend |-> "weekend_quantities"]

AVERAGE_COLUMN ==
    [bh_day |-> "bh_day_cycle_time_averages", nights |-> "nights_cycle_time_averages",
     weekend |-> "weekend_cycle_time_averages"]

\* a bucket that takes every hour inside the daily window, of any day
in_bucket_by_hour_only(bucket, ts, window) ==
    LET t == AbsHour(ts)
        inside == window.start_hour <= t % 24 /\ t % 24 < window.end_hour
    IN  CASE bucket = "weekend" -> WeekdayOfDay(t \div 24) \in 5..6
          [] bucket = "bh_day" -> inside
          [] bucket = "nights" -> WeekdayOfDay(t \div 24) \in 0..4 /\ ~inside

\* the bucket of a disposition timestamp, by its weekday and its hour
\* relative to the window
in_bucket(bucket, ts, window) ==
    LET t == AbsHour(ts)
        weekday == WeekdayOfDay(t \div 24)
        inside == window.start_hour <= t % 24 /\ t % 24 < window.end_hour
    IN  CASE bucket = "weekend" -> weekday \in 5..6
          [] bucket = "bh_day" -> weekday \in 0..4 /\ inside
          [] bucket = "nights" -> weekday \in 0..4 /\ ~inside

\* the disposed records of a month (of insertion) in a bucket
hop_members(records, month, bucket, window) ==
    {i \in 1..Len(records) :
        /\ records[i].disposition_date # NULL
        /\ MonthKey(records[i].insert_date) = month
        /\ in_bucket(bucket, records[i].disposition_date, window)}

\* the sum of the cycle times (wall-clock hours) of some of the records
RECURSIVE hop_cycle_time_sum(_, _)
hop_cycle_time_sum(records, members) ==
    IF members = {} THEN 0
    ELSE LET i == CHOOSE j \in members : TRUE
         IN  elapsed_business_hours(records[i].insert_date,
                                    records[i].disposition_date, Disabled)
             + hop_cycle_time_sum(records, members \ {i})

hop_cell(records, month, column, window) ==
    IF \E b \in SetOfList(HOP_BUCKETS) : QUANTITY_COLUMN[b] = column
    THEN LET b == CHOOSE b \in SetOfList(HOP_BUCKETS) : QUANTITY_COLUMN[b] = column
         IN  Cardinality(hop_members(records, month, b, window))
    ELSE LET b == CHOOSE b \in SetOfList(HOP_BUCKETS) : AVERAGE_COLUMN[b] = column
             members == hop_members(records, month, b, window)
         IN  IF members = {} THEN Fraction(0, 1)
             ELSE Fraction(hop_cycle_time_sum(records, members), Cardinality(members))

generate_hours_of_operation_summary_table(alerts, business_hours) ==
    IF \E i \in 1..Len(alerts) : alerts[i].insert_date = NULL
    THEN [status |-> "MissingFieldError"]
    ELSE LET index == month_axis(alerts, NULL).months
             columns == [i \in 1..3 |-> QUANTITY_COLUMN[HOP_BUCKETS[i]]]
                        \o [i \in 1..3 |-> AVERAGE_COLUMN[HOP_BUCKETS[i]]]
         IN  [status |-> "returned",
              index |-> index,
              columns |-> columns,
              cell |-> [c \in SetOfList(index) \X SetOfList(columns) |->
                           hop_cell(alerts, c[1], c[2], business_hours)],
              buckets |-> [i \in 1..Len(alerts) |->
                             IF alerts[i].disposition_date = NULL THEN {}
                             ELSE {b \in SetOfList(HOP_BUCKETS) :
                                     in_bucket(b, alerts[i].disposition_date,
                                               business_hours)}]]

(***************************************************************************)
(* Specification of the hours-of-operation summary                         *)
(***************************************************************************)
HopInsertMonths == {<<2023, 12>>, <<2024, 2>>, <<2024, 3>>}

\* hours from the insertion at the start of the month to the disposition
HopOffsets == {10, 20, 58}

HopDisposedRecords ==
    {[insert_date |-> Timestamp(ym[1], ym[2], 0),
      disposition |-> "false_positive",
      disposition_date |-> Timestamp(ym[1], ym[2], h)] :
        ym \in HopInsertMonths, h \in HopOffsets}

HopOpenRecords ==
    {[insert_date |-> Timestamp(ym[1], ym[2], 0),
      disposition |-> None,
      disposition_date |-> NULL] : ym \in HopInsertMonths}

HopRecords == HopDisposedRecords \cup HopOpenRecords

HopWindows == BhWindows \ {Disabled}

InitHop ==
    /\ hop_in \in [records : UNION {[1..n -> HopRecords] : n \in 0..MaxRecords},
                   window : HopWindows]
    /\ hop_out = NoCall
    /\ mk_in = NoCall /\ mk_out = NoCall
    /\ cat_in = NoCall /\ cat_out = NoCall
    /\ agg_in = NoCall /\ agg_out = NoCall /\ dbt_out = NoCall
    /\ bh_in = NoCall /\ bh_out = NoCall
    /\ sqlite_db = NoCall /\ upd = NoCall /\ rd = NoCall
    /\ xl_in = NoCall /\ xl_out = NoCall
    /\ cli_in = NoCall /\ cli_out = NoCall
    /\ usr_in = NoCall /\ usr_out = NoCall
    /\ db_file = NoCall /\ thread = NoCall /\ main = NoCall
    /\ co_in = NoCall /\ co_out = NoCall
    /\ out_in = NoCall /\ out_out = NoCall
    /\ ex_in = NoCall /\ ex_out = NoCall

\* get_alert_tables_by_month, lines 93-95
CallHoursOfOperation ==
    /\ hop_out = NoCall
    /\ hop_out' = generate_hours_of_operation_summary_table(hop_in.records, hop_in.window)
    /\ UNCHANGED <<hop_in, mk_in, mk_out, cat_in, cat_out, agg_in, agg_out, dbt_out,
                   bh_in, bh_out,
                  sqlite_db, upd, rd,
                  xl_in, xl_out,
                  cli_in, cli_out,
                  usr_in, usr_out,
                  db_file, thread, main,
                  co_in, co_out,
                  out_in, out_out,
                  ex_in, ex_out>>

NextHop == CallHoursOfOperation

SpecHop == InitHop /\ [][NextHop]_vars

(***************************************************************************)
(* The local SQLite database of the dashboard:                             *)
(* ace_metrics/plotly_dash/database.py update_database and                 *)
(* ace_metrics/plotly_dash/helpers.py fetch_data.                          *)
(* A table is its rows, month |-> the number of the computation            *)
(* (0 = initialize_database, k = the k-th update_database) that wrote the  *)
(* row.  A statement of SQLite is atomic: update_database commits once per *)
(* table (upsert_all), fetch_data reads one table per SELECT.              *)
(***************************************************************************)
\* the updates of the database of a run
MaxUpdates == 2

\* the longest list of tables requested of fetch_data
MaxRequest == 2

\* helpers.py, lines 10-26
VALID_TABLE_NAMES ==
    <<"analyst_alert_quantities", "alert_type_quantities", "hours_of_operation",
      "overall_operating_alert", "cycle_time_sum", "cycle_time_mean", "cycle_time_min",
      "cycle_time_max", "cycle_time_std", "alert_count", "cycle_time_sum_BH",
      "cycle_time_mean_BH", "cycle_time_min_BH", "cycle_time_max_BH",
      "cycle_time_std_BH">>

\* the keys of database_table_map in the order of their insertion,
\* database.py lines 77-96
DATABASE_TABLES ==
    VALID_ALERT_STATS
    \o <<"cycle_time_sum_BH", "cycle_time_mean_BH", "cycle_time_min_BH",
         "cycle_time_max_BH", "cycle_time_std_BH">>
    \o <<"analyst_alert_quantities", "alert_type_quantities", "hours_of_operation",
         "overall_operating_alert">>

\* the months of the database, and those of get_alert_tables_by_month(1):
\* the month before the current one, and the current one
DbMonths == {202401, 202402, 202403}

UpdateMonths == {202402, 202403}

\* the rows of one table of the k-th computation
computed_rows(months, k) == [month \in months |-> k]

\* only the records are kept: the table is written anew
insert_replacing_table(table, records) == records

\* update_database, line 133: upsert_all(..., pk="month") replaces the rows
\* with the month of a record and inserts the others
upsert_all(table, records) ==
    [month \in DOMAIN table \cup DOMAIN records |->
        IF month \in DOMAIN records THEN records[month] ELSE table[month]]

\* fetch_data, lines 46-53 without the check of the name: the statement is
\* built and run first, the name is checked afterwards
fetch_one_query_first(r, database) ==
    LET table == r.tables[r.i]
        ran == [r EXCEPT !.sql = Append(@, table)]
    IN  IF table \notin SetOfList(VALID_TABLE_NAMES)
        THEN [ran EXCEPT !.pc = "ValueError"]
        ELSE [ran EXCEPT !.df_dict = Append(@, <<table, database[table]>>),
                         !.i = @ + 1]

\* fetch_data, lines 46-53: one turn of the loop over the requested tables;
\* sql is the list of the tables of the statements that were run
fetch_one(r, database) ==
    LET table == r.tables[r.i]
    IN  IF table \notin SetOfList(VALID_TABLE_NAMES)
        THEN [r EXCEPT !.pc = "ValueError"]
        ELSE [r EXCEPT !.sql = Append(@, table),
                       !.df_dict = Append(@, <<table, database[table]>>),
                       !.i = @ + 1]

(***************************************************************************)
(* Specification of the dashboard database: the thread of update_database  *)
(* and a reader in fetch_data                                              *)
(***************************************************************************)
\* names requested of fetch_data: tables of the database, and others
FetchNames == {"alert_count", "cycle_time_mean", "cycle_time_mean_BH", "alerts",
               "sqlite_master"}

InitDb ==
    /\ sqlite_db = [t \in SetOfList(DATABASE_TABLES) |-> computed_rows(DbMonths, 0)]
    /\ upd = [pc |-> "sleep", k |-> 0, todo |-> <<>>]
    /\ rd \in [pc : {"loop"},
               tables : UNION {[1..n -> FetchNames] : n \in 0..MaxRequest},
               i : {1}, df_dict : {<<>>}, sql : {<<>>}, result : {NoCall}]
    /\ mk_in = NoCall /\ mk_out = NoCall
    /\ cat_in = NoCall /\ cat_out = NoCall
    /\ agg_in = NoCall /\ agg_out = NoCall /\ dbt_out = NoCall
    /\ bh_in = NoCall /\ bh_out = NoCall
    /\ hop_in = NoCall /\ hop_out = NoCall
    /\ xl_in = NoCall /\ xl_out = NoCall
    /\ cli_in = NoCall /\ cli_out = NoCall
    /\ usr_in = NoCall /\ usr_out = NoCall
    /\ db_file = NoCall /\ thread = NoCall /\ main = NoCall
    /\ co_in = NoCall /\ co_out = NoCall
    /\ out_in = NoCall /\ out_out = NoCall
    /\ ex_in = NoCall /\ ex_out = NoCall

\* update_database, line 128: update_table_map = get_alert_tables_by_month(1)
UpdateCompute ==
    /\ upd.pc = "sleep"
    /\ upd.k < MaxUpdates
    /\ upd' = [pc |-> "upsert", k |-> upd.k + 1, todo |-> DATABASE_TABLES]
    /\ UNCHANGED <<sqlite_db, rd, mk_in, mk_out, cat_in, cat_out, agg_in, agg_out, dbt_out,
                   bh_in, bh_out, hop_in, hop_out,
                  xl_in, xl_out,
                  cli_in, cli_out,
                  usr_in, usr_out,
                  db_file, thread, main,
                  co_in, co_out,
                  out_in, out_out,
                  ex_in, ex_out>>

\* update_database, lines 132-133: one table of the loop
UpdateUpsert ==
    /\ upd.pc = "upsert"
    /\ upd.todo # <<>>
    /\ sqlite_db' = [sqlite_db EXCEPT ![Head(upd.todo)] =
                 upsert_all(@, computed_rows(UpdateMonths, upd.k))]
    /\ upd' = [upd EXCEPT !.todo = Tail(@)]
    /\ UNCHANGED <<rd, mk_in, mk_out, cat_in, cat_out, agg_in, agg_out, dbt_out,
                   bh_in, bh_out, hop_in, hop_out,
                  xl_in, xl_out,
                  cli_in, cli_out,
                  usr_in, usr_out,
                  db_file, thread, main,
                  co_in, co_out,
                  out_in, out_out,
                  ex_in, ex_out>>

\* update_database, lines 135-136, and the sleep of threaded_db_update
UpdateDone ==
    /\ upd.pc = "upsert"
    /\ upd.todo = <<>>
    /\ upd' = [upd EXCEPT !.pc = "sleep"]
    /\ UNCHANGED <<sqlite_db, rd, mk_in, mk_out, cat_in, cat_out, agg_in, agg_out, dbt_out,
                   bh_in, bh_out, hop_in, hop_out,
                  xl_in, xl_out,
                  cli_in, cli_out,
                  usr_in, usr_out,
                  db_file, thread, main,
                  co_in, co_out,
                  out_in, out_out,
                  ex_in, ex_out>>

\* fetch_data, lines 46-53
FetchOne ==
    /\ rd.pc = "loop"
    /\ rd.i <= Len(rd.tables)
    /\ rd' = fetch_one(rd, sqlite_db)
    /\ UNCHANGED <<sqlite_db, upd, mk_in, mk_out, cat_in, cat_out, agg_in, agg_out, dbt_out,
                   bh_in, bh_out, hop_in, hop_out,
                  xl_in, xl_out,
                  cli_in, cli_out,
                  usr_in, usr_out,
                  db_file, thread, main,
                  co_in, co_out,
                  out_in, out_out,
                  ex_in, ex_out>>

\* fetch_data, lines 54-55
FetchReturn ==
    /\ rd.pc = "loop"
    /\ rd.i > Len(rd.tables)
    /\ rd' = [rd EXCEPT !.pc = "returned",
                        !.result = [status |-> "returned", df_dict |-> rd.df_dict]]
    /\ UNCHANGED <<sqlite_db, upd, mk_in, mk_out, cat_in, cat_out, agg_in, agg_out, dbt_out,
                   bh_in, bh_out, hop_in, hop_out,
                  xl_in, xl_out,
                  cli_in, cli_out,
                  usr_in, usr_out,
                  db_file, thread, main,
                  co_in, co_out,
                  out_in, out_out,
                  ex_in, ex_out>>

NextDb == UpdateCompute \/ UpdateUpsert \/ UpdateDone \/ FetchOne \/ FetchReturn

SpecDb == InitDb /\ [][NextDb]_vars

(***************************************************************************)
(* Start of the dashboard: ace_metrics/plotly_dash/app.py __main__ starts  *)
(* the thread of threaded_db_update and then calls create_dash_app, whose  *)
(* first statement is initialize_database().  db_file is the file          *)
(* ace_metrics_database.sqlite: whether it exists, and the rows of its     *)
(* tables (0 = written by initialize_database, 1 = by update_database).    *)
(***************************************************************************)
\* database.py, line 112: to_sql(..., if_exists="replace") drops the table
\* and writes the rows of the DataFrame
to_sql(table, records) == records

\* threaded_db_update, line 60, update_database, line 128:
\* get_alert_tables_by_month(1) returns the tables or raises (the ACE
\* database is not reachable, a query fails); nothing catches the exception
\* in update_database or in threaded_db_update, so it ends the thread
ThreadCompute ==
    /\ thread.pc = "update"
    /\ \E outcome \in {"returned", "raised"} :
          thread' = [thread EXCEPT !.pc = IF outcome = "returned"
                                          THEN "connect" ELSE "dead"]
    /\ UNCHANGED <<db_file, main, mk_in, mk_out, cat_in, cat_out, agg_in, agg_out, dbt_out,
                   bh_in, bh_out, hop_in, hop_out, sqlite_db, upd, rd,
                   xl_in, xl_out, cli_in, cli_out, usr_in, usr_out,
                  co_in, co_out,
                  out_in, out_out,
                  ex_in, ex_out>>

\* update_database, line 130: sqlite3.connect creates the file
ThreadConnect ==
    /\ thread.pc = "connect"
    /\ thread' = [thread EXCEPT !.pc = "upsert", !.todo = DATABASE_TABLES]
    /\ db_file' = [db_file EXCEPT !.isfile = TRUE]
    /\ UNCHANGED <<main, mk_in, mk_out, cat_in, cat_out, agg_in, agg_out, dbt_out,
                   bh_in, bh_out, hop_in, hop_out, sqlite_db, upd, rd,
                   xl_in, xl_out, cli_in, cli_out, usr_in, usr_out,
                  co_in, co_out,
                  out_in, out_out,
                  ex_in, ex_out>>

\* update_database, lines 132-133: one table of the loop; upsert_all creates
\* a table that is not there
ThreadUpsert ==
    /\ thread.pc = "upsert"
    /\ thread.todo # <<>>
    /\ db_file' = [db_file EXCEPT !.tables[Head(thread.todo)] =
                      upsert_all(@, computed_rows(UpdateMonths, 1))]
    /\ thread' = [thread EXCEPT !.todo = Tail(@)]
    /\ UNCHANGED <<main, mk_in, mk_out, cat_in, cat_out, agg_in, agg_out, dbt_out,
                   bh_in, bh_out, hop_in, hop_out, sqlite_db, upd, rd,
                   xl_in, xl_out, cli_in, cli_out, usr_in, usr_out,
                  co_in, co_out,
                  out_in, out_out,
                  ex_in, ex_out>>

\* update_database, lines 135-136, threaded_db_update, lines 59-61: the
\* update returns, the thread sleeps and calls update_database again
ThreadSleep ==
    /\ thread.pc = "upsert"
    /\ thread.todo = <<>>
    /\ thread' = [thread EXCEPT !.pc = "update", !.updated = TRUE]
    /\ UNCHANGED <<db_file, main, mk_in, mk_out, cat_in, cat_out, agg_in, agg_out, dbt_out,
                   bh_in, bh_out, hop_in, hop_out, sqlite_db, upd, rd,
                   xl_in, xl_out, cli_in, cli_out, usr_in, usr_out,
                  co_in, co_out,
                  out_in, out_out,
                  ex_in, ex_out>>

ThreadNext == ThreadCompute \/ ThreadConnect \/ ThreadUpsert \/ ThreadSleep

\* initialize_database, lines 103-106
MainIsFile ==
    /\ main.pc = "isfile"
    /\ main' = [main EXCEPT !.pc = IF db_file.isfile THEN "returned" ELSE "compute"]
    /\ UNCHANGED <<db_file, thread, mk_in, mk_out, cat_in, cat_out, agg_in, agg_out, dbt_out,
                   bh_in, bh_out, hop_in, hop_out, sqlite_db, upd, rd,
                   xl_in, xl_out, cli_in, cli_out, usr_in, usr_out,
                  co_in, co_out,
                  out_in, out_out,
                  ex_in, ex_out>>

\* initialize_database, lines 107-109
MainCompute ==
    /\ main.pc = "compute"
    /\ main' = [main EXCEPT !.pc = "to_sql", !.todo = DATABASE_TABLES]
    /\ db_file' = [db_file EXCEPT !.isfile = TRUE]
    /\ UNCHANGED <<thread, mk_in, mk_out, cat_in, cat_out, agg_in, agg_out, dbt_out,
                   bh_in, bh_out, hop_in, hop_out, sqlite_db, upd, rd,
                   xl_in, xl_out, cli_in, cli_out, usr_in, usr_out,
                  co_in, co_out,
                  out_in, out_out,
                  ex_in, ex_out>>

\* initialize_database, lines 110-112: one table of the loop
MainToSql ==
    /\ main.pc = "to_sql"
    /\ main.todo # <<>>
    /\ db_file' = [db_file EXCEPT !.tables[Head(main.todo)] =
                      to_sql(@, computed_rows(DbMonths, 0))]
    /\ main' = [main EXCEPT !.todo = Tail(@)]
    /\ UNCHANGED <<thread, mk_in, mk_out, cat_in, cat_out, agg_in, agg_out, dbt_out,
                   bh_in, bh_out, hop_in, hop_out, sqlite_db, upd, rd,
                   xl_in, xl_out, cli_in, cli_out, usr_in, usr_out,
                  co_in, co_out,
                  out_in, out_out,
                  ex_in, ex_out>>

\* initialize_database, lines 114-118
MainCopy ==
    /\ main.pc = "to_sql"
    /\ main.todo = <<>>
    /\ main' = [main EXCEPT !.pc = "returned"]
    /\ UNCHANGED <<db_file, thread, mk_in, mk_out, cat_in, cat_out, agg_in, agg_out, dbt_out,
                   bh_in, bh_out, hop_in, hop_out, sqlite_db, upd, rd,
                   xl_in, xl_out, cli_in, cli_out, usr_in, usr_out,
                  co_in, co_out,
                  out_in, out_out,
                  ex_in, ex_out>>

\* app.py, lines 279-280: the thread has been started, create_dash_app is
\* about to call initialize_database; the file of an earlier run may be
\* there, with the months of the scope of its initialization
InitApp ==
    /\ db_file \in {[isfile |-> FALSE,
                     tables |-> [t \in SetOfList(DATABASE_TABLES) |->
                                    computed_rows({}, 0)]],
                    [isfile |-> TRUE,
                     tables |-> [t \in SetOfList(DATABASE_TABLES) |->
                                    computed_rows(DbMonths, 0)]]}
    /\ thread = [pc |-> "update", todo |-> <<>>, updated |-> FALSE]
    /\ main = [pc |-> "isfile", todo |-> <<>>]
    /\ mk_in = NoCall /\ mk_out = NoCall
    /\ cat_in = NoCall /\ cat_out = NoCall
    /\ agg_in = NoCall /\ agg_out = NoCall /\ dbt_out = NoCall
    /\ bh_in = NoCall /\ bh_out = NoCall
    /\ hop_in = NoCall /\ hop_out = NoCall
    /\ sqlite_db = NoCall /\ upd = NoCall /\ rd = NoCall
    /\ xl_in = NoCall /\ xl_out = NoCall
    /\ cli_in = NoCall /\ cli_out = NoCall
    /\ usr_in = NoCall /\ usr_out = NoCall
    /\ co_in = NoCall /\ co_out = NoCall
    /\ out_in = NoCall /\ out_out = NoCall
    /\ ex_in = NoCall /\ ex_out = NoCall

NextApp == ThreadNext \/ MainIsFile \/ MainCompute \/ MainToSql \/ MainCopy

SpecApp == InitApp /\ [][NextApp]_vars

\* the thread is scheduled as long as it has a step to take
SpecAppLive == SpecApp /\ WF_vars(ThreadNext)

(***************************************************************************)
(* Validation of the companies: ace_metrics/cli.py                         *)
(* execute_metric_arguments, lines 262-271                                 *)
(***************************************************************************)
\* the longest list of --company arguments
MaxCompanies == 3

\* list.remove(x): the first item equal to x is removed
remove(list, x) ==
    LET k == CHOOSE i \in 1..Len(list) : list[i] = x /\ \A j \in 1..(i - 1) : list[j] # x
    IN  SubSeq(list, 1, k - 1) \o SubSeq(list, k + 1, Len(list))

\* lines 266-269: the for loop over args.companies, which the body changes;
\* the iterator of a list keeps a position i and ends when i is past the
\* end of the list as it is then
RECURSIVE for_company(_, _, _)
for_company(companies, valid_companies, i) ==
    IF i > Len(companies) THEN companies
    ELSE for_company(IF ~InList(companies[i], valid_companies)
                     THEN remove(companies, companies[i])
                     ELSE companies,
                     valid_companies, i + 1)

\* lines 262-271
validate_companies(companies, valid_companies) ==
    IF companies = <<>> THEN [status |-> "continues", companies |-> companies]
    ELSE LET left == for_company(companies, valid_companies, 1)
         IN  IF left = <<>> THEN [status |-> "exit(0)", companies |-> left]
             ELSE [status |-> "continues", companies |-> left]

\* the names given with --company, and the companies of get_companies(db)
CompanyNames == {"acme", "globex", "initech", "umbrella"}

InitCompanies ==
    /\ co_in \in [companies : UNION {[1..n -> CompanyNames] : n \in 0..MaxCompanies},
                  valid_companies : {<<"acme", "globex">>, <<"acme">>}]
    /\ co_out = NoCall
    /\ mk_in = NoCall /\ mk_out = NoCall
    /\ cat_in = NoCall /\ cat_out = NoCall
    /\ agg_in = NoCall /\ agg_out = NoCall /\ dbt_out = NoCall
    /\ bh_in = NoCall /\ bh_out = NoCall
    /\ hop_in = NoCall /\ hop_out = NoCall
    /\ sqlite_db = NoCall /\ upd = NoCall /\ rd = NoCall
    /\ xl_in = NoCall /\ xl_out = NoCall
    /\ cli_in = NoCall /\ cli_out = NoCall
    /\ usr_in = NoCall /\ usr_out = NoCall
    /\ db_file = NoCall /\ thread = NoCall /\ main = NoCall
    /\ out_in = NoCall /\ out_out = NoCall
    /\ ex_in = NoCall /\ ex_out = NoCall

CallValidateCompanies ==
    /\ co_out = NoCall
    /\ co_out' = validate_companies(co_in.companies, co_in.valid_companies)
    /\ UNCHANGED <<co_in, mk_in, mk_out, cat_in, cat_out, agg_in, agg_out, dbt_out,
                   bh_in, bh_out, hop_in, hop_out, sqlite_db, upd, rd,
                   xl_in, xl_out, cli_in, cli_out, usr_in, usr_out,
                   db_file, thread, main,
                  out_in, out_out,
                  ex_in, ex_out>>

NextCompanies == CallValidateCompanies

SpecCompanies == InitCompanies /\ [][NextCompanies]_vars

(***************************************************************************)
(* Output of the tables: ace_metrics/cli.py execute_metric_arguments,      *)
(* lines 424-450.  A file is its name and the tables it contains; stdout   *)
(* is the list of the tables sent to stdout_like.                          *)
(***************************************************************************)
\* the most tables a run produces
MaxProduced == 3

\* line 23: the choices of --fileout-format (line 167)
FILEOUT_FORMATS == <<"json", "xlsx">>

\* lines 425-450; fileout_format and filename are [given, text]
output(fileout_format, filename, tables, time_stamp) ==
    IF fileout_format.given /\ tables # <<>>
    THEN LET base == "ACE_metrics_" \o time_stamp
             xls_name == IF filename.given THEN filename.text ELSE base \o ".xlsx"
             json_name == IF filename.given THEN filename.text ELSE base \o ".tar.gz"
             xls == IF fileout_format.text = "xls"
                    THEN <<[name |-> xls_name, tables |-> tables]>> ELSE <<>>
             json == IF fileout_format.text = "json"
                     THEN <<[name |-> json_name, tables |-> tables]>> ELSE <<>>
         IN  [status |-> "returned", files |-> xls \o json, stdout |-> <<>>]
    ELSE [status |-> "returned", files |-> <<>>, stdout |-> tables]

InitOutput ==
    /\ out_in \in [fileout_format : {[given |-> FALSE, text |-> ""]}
                                     \cup {[given |-> TRUE, text |-> f] :
                                              f \in SetOfList(FILEOUT_FORMATS)},
                   filename : {[given |-> FALSE, text |-> ""],
                               [given |-> TRUE, text |-> "metrics.out"]},
                   tables : UNION {[1..n -> {"alert_count", "hours_of_operation"}] :
                                      n \in 0..MaxProduced}]
    /\ out_out = NoCall
    /\ mk_in = NoCall /\ mk_out = NoCall
    /\ cat_in = NoCall /\ cat_out = NoCall
    /\ agg_in = NoCall /\ agg_out = NoCall /\ dbt_out = NoCall
    /\ bh_in = NoCall /\ bh_out = NoCall
    /\ hop_in = NoCall /\ hop_out = NoCall
    /\ sqlite_db = NoCall /\ upd = NoCall /\ rd = NoCall
    /\ xl_in = NoCall /\ xl_out = NoCall
    /\ cli_in = NoCall /\ cli_out = NoCall
    /\ usr_in = NoCall /\ usr_out = NoCall
    /\ db_file = NoCall /\ thread = NoCall /\ main = NoCall
    /\ co_in = NoCall /\ co_out = NoCall
    /\ ex_in = NoCall /\ ex_out = NoCall

CallOutput ==
    /\ out_out = NoCall
    /\ out_out' = output(out_in.fileout_format, out_in.filename, out_in.tables,
                         "1730642000")
    /\ UNCHANGED <<out_in, mk_in, mk_out, cat_in, cat_out, agg_in, agg_out, dbt_out,
                   bh_in, bh_out, hop_in, hop_out, sqlite_db, upd, rd,
                   xl_in, xl_out, cli_in, cli_out, usr_in, usr_out,
                   db_file, thread, main, co_in, co_out,
                  ex_in, ex_out>>

NextOutput == CallOutput

SpecOutput == InitOutput /\ [][NextOutput]_vars

(***************************************************************************)
(* Configured exceptions of the alert data:                                *)
(* ace_metrics/plotly_dash/data_exceptions/__init__.py.  A text is the     *)
(* sequence of its characters; the alerts are the list of the names of the *)
(* exception functions that were applied to them, in that order.           *)
(***************************************************************************)
\* the longest exception_list
MaxExceptions == 3

\* the place of the first ":" of s at or after i, or Len(s) + 1
RECURSIVE colon_from(_, _)
colon_from(s, i) ==
    IF i > Len(s) \/ s[i] = ":" THEN i ELSE colon_from(s, i + 1)

\* lines 11-20: _MODULE_PATH_REGEX ^([^:]+):([^:]+)(?::(.+))?$ ; the groups
\* (module, class, instance), or False
SPLIT_MODULE_PATH(module_path) ==
    LET c1 == colon_from(module_path, 1)
        c2 == colon_from(module_path, c1 + 1)
    IN  IF /\ 1 < c1 /\ c1 <= Len(module_path)
           /\ c1 + 1 < c2
           /\ c2 # Len(module_path)
        THEN [matched |-> TRUE,
              groups |-> <<SubSeq(module_path, 1, c1 - 1),
                           SubSeq(module_path, c1 + 1, c2 - 1),
                           SubSeq(module_path, c2 + 1, Len(module_path))>>]
        ELSE [matched |-> FALSE]

\* the modules that importlib.import_module finds, with their attributes
MODULES ==
    <<<<<<"m">>, <<<<"f">>, <<"g">>>>>>>>

\* lines 27-43: the loop from the i-th key on.  config.get(key) is None for
\* a key that is not in the section, and re.match(None) raises TypeError;
\* unpacking the False of a path that does not match raises TypeError
RECURSIVE apply_alert_data_exceptions(_, _, _, _)
apply_alert_data_exceptions(config, alerts, exception_list, i) ==
    IF i > Len(exception_list) THEN [status |-> "returned", alerts |-> alerts]
    ELSE LET exception_key == exception_list[i]
             split_path == SPLIT_MODULE_PATH(DictGet(config, exception_key))
             _module == split_path.groups[1]
             _func == split_path.groups[2]
         IN  IF ~HasKey(config, exception_key) THEN [status |-> "TypeError"]
             ELSE IF ~split_path.matched THEN [status |-> "TypeError"]
             ELSE IF ~HasKey(MODULES, _module)
                  THEN apply_alert_data_exceptions(config, alerts, exception_list, i + 1)
             ELSE IF ~InList(_func, DictGet(MODULES, _module))
                  THEN apply_alert_data_exceptions(config, alerts, exception_list, i + 1)
             ELSE apply_alert_data_exceptions(config, Append(alerts, _func),
                                              exception_list, i + 1)

\* the section alert_data_exceptions of the configuration
ALERT_DATA_EXCEPTIONS ==
    <<<<"dedup", <<"m", ":", "f">>>>,
      <<"tuning", <<"m", ":", "g", ":", "i">>>>,
      <<"no_module", <<"x", ":", "f">>>>,
      <<"no_function", <<"m", ":", "h">>>>,
      <<"no_colon", <<"m", "f">>>>,
      <<"no_instance", <<"m", ":", "f", ":">>>>>>

\* the keys of an exception_list: keys of the section, and one that is not
ExceptionKeys == SetOfList(DictKeys(ALERT_DATA_EXCEPTIONS)) \cup {"unknown"}

InitExceptions ==
    /\ ex_in \in [exception_list :
                     UNION {[1..n -> ExceptionKeys] : n \in 0..MaxExceptions}]
    /\ ex_out = NoCall
    /\ mk_in = NoCall /\ mk_out = NoCall
    /\ cat_in = NoCall /\ cat_out = NoCall
    /\ agg_in = NoCall /\ agg_out = NoCall /\ dbt_out = NoCall
    /\ bh_in = NoCall /\ bh_out = NoCall
    /\ hop_in = NoCall /\ hop_out = NoCall
    /\ sqlite_db = NoCall /\ upd = NoCall /\ rd = NoCall
    /\ xl_in = NoCall /\ xl_out = NoCall
    /\ cli_in = NoCall /\ cli_out = NoCall
    /\ usr_in = NoCall /\ usr_out = NoCall
    /\ db_file = NoCall /\ thread = NoCall /\ main = NoCall
    /\ co_in = NoCall /\ co_out = NoCall
    /\ out_in = NoCall /\ out_out = NoCall

CallApplyExceptions ==
    /\ ex_out = NoCall
    /\ ex_out' = apply_alert_data_exceptions(ALERT_DATA_EXCEPTIONS, <<>>,
                                             ex_in.exception_list, 1)
    /\ UNCHANGED <<ex_in, mk_in, mk_out, cat_in, cat_out, agg_in, agg_out, dbt_out,
                   bh_in, bh_out, hop_in, hop_out, sqlite_db, upd, rd,
                   xl_in, xl_out, cli_in, cli_out, usr_in, usr_out,
                   db_file, thread, main, co_in, co_out, out_in, out_out>>

NextExceptions == CallApplyExceptions

SpecExceptions == InitExceptions /\ [][NextExceptions]_vars

(***************************************************************************)
(* Export of tables to a workbook: metrics/helpers.py sanitize_table_name  *)
(* and dataframes_to_xlsx_bytes.  A text is the sequence of its            *)
(* characters; a table is its name (named = FALSE for the name None).      *)
(***************************************************************************)
ascii_lowercase ==
    <<"a", "b", "c", "d", "e", "f", "g", "h", "i", "j", "k", "l", "m", "n",
      "o", "p", "q", "r", "s", "t", "u", "v", "w", "x", "y", "z">>

ascii_uppercase ==
    <<"A", "B", "C", "D", "E", "F", "G", "H", "I", "J", "K", "L", "M", "N",
      "O", "P", "Q", "R", "S", "T", "U", "V", "W", "X", "Y", "Z">>

\* str.upper of one character
upper(c) ==
    IF \E i \in 1..26 : ascii_lowercase[i] = c
    THEN ascii_uppercase[CHOOSE i \in 1..26 : ascii_lowercase[i] = c]
    ELSE c

\* pat occurs in s at position i
occurs_at(s, i, pat) ==
    /\ i + Len(pat) - 1 <= Len(s)
    /\ \A k \in 1..Len(pat) : s[i + k - 1] = pat[k]

\* `pat in s`
contains(s, pat) == \E i \in 1..Len(s) : occurs_at(s, i, pat)

\* str.replace: every occurrence of old (not empty), from the left
RECURSIVE replace(_, _, _)
replace(s, old, new) ==
    IF s = <<>> THEN <<>>
    ELSE IF occurs_at(s, 1, old)
         THEN new \o replace(SubSeq(s, Len(old) + 1, Len(s)), old, new)
         ELSE <<Head(s)>> \o replace(Tail(s), old, new)

\* str.strip of blanks
RECURSIVE strip(_)
strip(s) ==
    IF s = <<>> THEN s
    ELSE IF Head(s) = " " THEN strip(Tail(s))
    ELSE IF s[Len(s)] = " " THEN strip(SubSeq(s, 1, Len(s) - 1))
    ELSE s

\* str.split(sep): the list of the parts
RECURSIVE split_from(_, _, _)
split_from(s, sep, part) ==
    IF s = <<>> THEN <<part>>
    ELSE IF occurs_at(s, 1, sep)
         THEN <<part>> \o split_from(SubSeq(s, Len(sep) + 1, Len(s)), sep, <<>>)
         ELSE split_from(Tail(s), sep, Append(part, Head(s)))

split(s, sep) == split_from(s, sep, <<>>)

digits == <<"0", "1", "2", "3", "4", "5", "6", "7", "8", "9">>

\* str(datetime.now().timestamp()) at tick t of the clock: the seconds, and
\* the microseconds without trailing zeros
timestamp_text(t) ==
    <<"1", "7", "3", "0", "6", "4", "2", "0", "0", "0", ".">>
    \o (IF t = 0 THEN <<"0">>
        ELSE <<"0", "0", "0", "0", "0">> \o <<digits[t + 1]>>)

\* FRIENDLY_STAT_NAME_MAP of metrics/alerts: statistic key, friendly name
FRIENDLY_STAT_NAME_MAP ==
    <<<<<<"a", "l", "e", "r", "t", "_", "c", "o", "u", "n", "t">>,
        <<"Q", "u", "a", "n", "t", "i", "t", "y", " ", "o", "f", " ", "A", "l", "e", "r", "t", "s">>>>>>

\* sanitize_table_name, lines 128-131
RECURSIVE map_friendly_names(_, _)
map_friendly_names(safe_name, items) ==
    IF items = <<>> THEN safe_name
    ELSE LET stat_key == items[1][1]
             stat_name == items[1][2]
         IN  map_friendly_names(IF contains(safe_name, stat_name)
                                THEN replace(safe_name, stat_name, stat_key)
                                ELSE safe_name,
                                Tail(items))

\* sanitize_table_name, lines 133-135
invalid_chars == <<"\\", "*", "?", ":", "/", "[", "]">>

replace_invalid_chars(safe_name) ==
    [i \in 1..Len(safe_name) |->
        IF safe_name[i] \in SetOfList(invalid_chars) THEN "-" ELSE safe_name[i]]

\* sanitize_table_name; now is the tick of the clock at the call
sanitize_table_name(table, keep_friendly, now) ==
    IF ~table.named
    THEN <<"N", "o", " ", "n", "a", "m", "e", " ", "-", " ">> \o timestamp_text(now)
    ELSE LET stripped == strip(table.name)
             safe_name == IF ~keep_friendly
                          THEN map_friendly_names(stripped, FRIENDLY_STAT_NAME_MAP)
                          ELSE stripped
         IN  replace_invalid_chars(safe_name)

\* no cut of the name
keep_whole_name(clean_table_name) == clean_table_name

\* dataframes_to_xlsx_bytes, lines 210-212: openpyxl guidance to keep names
\* to 31 chars or less
cut_to_31_chars(clean_table_name) ==
    IF Len(clean_table_name) > 31 THEN SubSeq(clean_table_name, 1, 31)
    ELSE clean_table_name

\* dataframes_to_xlsx_bytes, lines 203-208: the first character, in upper
\* case, of every part but the last, each followed by "-", then the last
\* part
shorten_name_parts(name_parts) ==
    LET n == Len(name_parts)
    IN  [k \in 1..(2 * (n - 1)) |->
            IF k % 2 = 1 THEN upper(name_parts[(k + 1) \div 2][1]) ELSE "-"]
        \o name_parts[n]

\* the name of the sheet of the tab name map, line 233
TAB_NAME_MAP_SHEET ==
    <<"T", "a", "b", " ", "N", "a", "m", "e", " ", "M", "a", "p">>

\* dataframes_to_xlsx_bytes, lines 189-224: the loop over the tables, from
\* table i on; the calls of datetime.now() of table i read the clock at
\* 3i-2, 3i-1 and 3i
RECURSIVE tab_name_loop(_, _, _, _)
tab_name_loop(tables, clock, i, st) ==
    IF i > Len(tables) THEN st
    ELSE LET table == tables[i]
             table_name ==
                 IF table.named /\ table.name # <<>> THEN table.name
                 ELSE sanitize_table_name([named |-> FALSE, name |-> <<>>], FALSE,
                                          clock[3 * i - 2])
             name_parts == split(sanitize_table_name(table, FALSE, clock[3 * i - 1]),
                                 <<" ", "-", " ">>)
         IN  IF \E k \in 1..(Len(name_parts) - 1) : name_parts[k] = <<>>
             THEN [st EXCEPT !.status = "IndexError"]
             ELSE LET clean_table_name == cut_to_31_chars(shorten_name_parts(name_parts))
                      tab_name ==
                          IF InList(clean_table_name, st.tab_names)
                          THEN <<"C", "o", "l", "l", "i", "s", "i", "o", "n", " ", "-", " ">>
                               \o timestamp_text(clock[3 * i])
                          ELSE clean_table_name
                  IN  tab_name_loop(tables, clock, i + 1,
                          [st EXCEPT !.tab_names = Append(@, tab_name),
                                     !.tab_name_map = DictSet(@, tab_name, table_name),
                                     !.table_tab_map = DictSet(@, tab_name, i)])

\* lines 226-240: the sheets of the writer, name and content (0: the tab
\* name map, i: the i-th table); to_excel writes into the sheet of that
\* name
RECURSIVE write_sheets(_, _)
write_sheets(workbook, items) ==
    IF items = <<>> THEN workbook
    ELSE write_sheets(DictSet(workbook, items[1][1], items[1][2]), Tail(items))

dataframes_to_xlsx_bytes(tables, clock) ==
    LET st == tab_name_loop(tables, clock, 1,
                  [status |-> "returned", tab_names |-> <<>>, tab_name_map |-> <<>>,
                   table_tab_map |-> <<>>])
    IN  IF st.status # "returned" THEN [status |-> st.status]
        ELSE [status |-> "returned",
              tab_names |-> st.tab_names,
              tab_name_map |-> st.tab_name_map,
              table_tab_map |-> st.table_tab_map,
              workbook |-> write_sheets(<<<<TAB_NAME_MAP_SHEET, 0>>>>, st.table_tab_map)]

(***************************************************************************)
(* Specification of the export to a workbook                               *)
(***************************************************************************)
\* the longest list of tables
MaxTables == 3

\* the ticks of the clock during a call
MaxTick == 1

Named(name) == [named |-> TRUE, name |-> name]

\* "Users"
XlUsers ==
    <<"U", "s", "e", "r", "s">>

\* "hunter - splunk - dns: Quantity of Alerts"
XlAlertTypeStat ==
    <<"h", "u", "n", "t", "e", "r", " ", "-", " ", "s", "p", "l", "u", "n",
      "k", " ", "-", " ", "d", "n", "s", ":", " ", "Q", "u", "a", "n", "t",
      "i", "t", "y", " ", "o", "f", " ", "A", "l", "e", "r", "t", "s">>

\* "Average Time to Disposition of all companies (hours)"
XlLongHours ==
    <<"A", "v", "e", "r", "a", "g", "e", " ", "T", "i", "m", "e", " ", "t",
      "o", " ", "D", "i", "s", "p", "o", "s", "i", "t", "i", "o", "n", " ",
      "o", "f", " ", "a", "l", "l", " ", "c", "o", "m", "p", "a", "n", "i",
      "e", "s", " ", "(", "h", "o", "u", "r", "s", ")">>

\* "Average Time to Disposition of all companies (days)"
XlLongDays ==
    <<"A", "v", "e", "r", "a", "g", "e", " ", "T", "i", "m", "e", " ", "t",
      "o", " ", "D", "i", "s", "p", "o", "s", "i", "t", "i", "o", "n", " ",
      "o", "f", " ", "a", "l", "l", " ", "c", "o", "m", "p", "a", "n", "i",
      "e", "s", " ", "(", "d", "a", "y", "s", ")">>

\* "a -  - b": a part between two separators is empty
XlEmptyPart ==
    <<"a", " ", "-", " ", " ", "-", " ", "b">>

XlTables ==
    {[named |-> FALSE, name |-> <<>>], Named(XlUsers), Named(XlAlertTypeStat),
     Named(XlLongHours), Named(XlLongDays), Named(XlEmptyPart)}

\* the clock that goes from tick j-1 to tick j after its p[j]-th reading
ClockOf(p, n) == [k \in 1..n |-> Cardinality({j \in DOMAIN p : p[j] < k})]

InitXlsx ==
    /\ xl_in \in [tables : UNION {[1..n -> XlTables] : n \in 0..MaxTables}]
    /\ xl_out = NoCall
    /\ mk_in = NoCall /\ mk_out = NoCall
    /\ cat_in = NoCall /\ cat_out = NoCall
    /\ agg_in = NoCall /\ agg_out = NoCall /\ dbt_out = NoCall
    /\ bh_in = NoCall /\ bh_out = NoCall
    /\ hop_in = NoCall /\ hop_out = NoCall
    /\ sqlite_db = NoCall /\ upd = NoCall /\ rd = NoCall
    /\ cli_in = NoCall /\ cli_out = NoCall
    /\ usr_in = NoCall /\ usr_out = NoCall
    /\ db_file = NoCall /\ thread = NoCall /\ main = NoCall
    /\ co_in = NoCall /\ co_out = NoCall
    /\ out_in = NoCall /\ out_out = NoCall
    /\ ex_in = NoCall /\ ex_out = NoCall

\* a call of dataframes_to_xlsx_bytes; datetime.now() never goes back, and
\* two readings may give the same time
CallXlsx ==
    /\ xl_out = NoCall
    /\ \E p \in [1..MaxTick -> 0..(3 * Len(xl_in.tables))] :
          xl_out' = [clock |-> ClockOf(p, 3 * Len(xl_in.tables))]
                    @@ dataframes_to_xlsx_bytes(xl_in.tables,
                                                ClockOf(p, 3 * Len(xl_in.tables)))
    /\ UNCHANGED <<xl_in, mk_in, mk_out, cat_in, cat_out, agg_in, agg_out, dbt_out,
                   bh_in, bh_out, hop_in, hop_out, sqlite_db, upd, rd,
                  cli_in, cli_out,
                  usr_in, usr_out,
                  db_file, thread, main,
                  co_in, co_out,
                  out_in, out_out,
                  ex_in, ex_out>>

NextXlsx == CallXlsx

SpecXlsx == InitXlsx /\ [][NextXlsx]_vars

(***************************************************************************)
(* The business-hours setting of the command line:                         *)
(* ace_metrics/cli.py execute_metric_arguments, lines 273-282 and 393-418; *)
(* define_business_time (ace_metrics/alerts/__init__.py) as section 7 of   *)
(* the specification describes it                                          *)
(***************************************************************************)
\* the value of a text of digits
RECURSIVE value_of_digits(_)
value_of_digits(s) ==
    IF s = <<>> THEN 0
    ELSE 10 * value_of_digits(SubSeq(s, 1, Len(s) - 1))
         + (CHOOSE d \in 0..9 : digits[d + 1] = s[Len(s)])

\* int(s) of a text: blanks around the digits are allowed
int(s) ==
    IF strip(s) # <<>> /\ \A i \in 1..Len(strip(s)) : strip(s)[i] \in SetOfList(digits)
    THEN [status |-> "returned", value |-> value_of_digits(strip(s))]
    ELSE [status |-> "ValueError"]

\* the names of time zones that are recognized
TIME_ZONES == {<<"U", "S", "/", "E", "a", "s", "t", "e", "r", "n">>, <<"U", "T", "C">>}

\* define_business_time(start_hour, end_hour, time_zone); a malformed
\* window is an InvalidConfigurationError
define_business_time(start_hour, end_hour, time_zone) ==
    IF /\ start_hour \in 0..23
       /\ end_hour \in 0..23
       /\ start_hour < end_hour
       /\ time_zone \in TIME_ZONES
    THEN [status |-> "returned",
          window |-> BusinessTimeWindow(start_hour, end_hour, {})
                     @@ [time_zone |-> time_zone]]
    ELSE [status |-> "InvalidConfigurationError"]

\* define_business_time(): 6, 18, US/Eastern
default_business_time == define_business_time(6, 18, <<"U", "S", "/", "E", "a", "s", "t", "e", "r", "n">>).window

\* cli.py, lines 273-282: args.business_hours after the parsing of the
\* setting; the setting is its text, or not given (the default False)
parse_business_hours(business_hours) ==
    IF ~business_hours.given \/ business_hours.text = <<>>
    THEN [status |-> "returned", business_hours |-> Disabled]
    ELSE LET bh_settings == split(business_hours.text, <<",">>)
         IN  IF bh_settings = <<>> THEN [status |-> "exit(1)"]
             ELSE IF int(bh_settings[1]).status # "returned"
             THEN [status |-> "ValueError"]
             ELSE IF Len(bh_settings) < 2 THEN [status |-> "IndexError"]
             ELSE IF int(bh_settings[2]).status # "returned"
             THEN [status |-> "ValueError"]
             ELSE IF Len(bh_settings) < 3 THEN [status |-> "IndexError"]
             ELSE LET bt == define_business_time(int(bh_settings[1]).value,
                                                 int(bh_settings[2]).value,
                                                 bh_settings[3])
                  IN  IF bt.status # "returned" THEN [status |-> bt.status]
                      ELSE [status |-> "returned", business_hours |-> bt.window]

\* cli.py, lines 405-407 and 415-417: business hours are required
required_business_hours(business_hours) ==
    IF ~business_hours.enabled THEN default_business_time ELSE business_hours

\* cli.py, lines 273-282 and 392-418: the statistics that are computed, each
\* with the business hours it is computed with
execute_metric_arguments(args) ==
    LET parsed == parse_business_hours(args.business_hours)
    IN  IF parsed.status # "returned"
        THEN [status |-> parsed.status, computed |-> <<>>]
        ELSE LET bh1 == parsed.business_hours
                 stats == IF args.all_alert_stats
                          THEN <<<<"statistics_by_month_by_dispo", bh1>>>> ELSE <<>>
                 bh2 == IF args.hours_of_operation
                        THEN required_business_hours(bh1) ELSE bh1
                 hop == IF args.hours_of_operation
                        THEN <<<<"hours_of_operation", bh2>>>> ELSE <<>>
                 bh3 == IF args.average_alert_cycletime_summary
                        THEN required_business_hours(bh2) ELSE bh2
                 sla == IF args.average_alert_cycletime_summary
                        THEN <<<<"overall_summary", bh3>>>> ELSE <<>>
             IN  [status |-> "returned", computed |-> stats \o hop \o sla]

(***************************************************************************)
(* Specification of the business-hours setting of the command line         *)
(***************************************************************************)
CliSettingTexts ==
    {<<>>,
     <<"6", ",", "1", "8", ",", "U", "S", "/", "E", "a", "s", "t", "e", "r", "n">>,
     <<"9", ",", "1", "7", ",", "U", "T", "C">>,
     <<"6", ",", "1", "8">>,
     <<"6">>,
     <<"s", "i", "x", ",", "1", "8", ",", "U", "T", "C">>,
     <<"6", ",", "x", ",", "U", "T", "C">>,
     <<"1", "8", ",", "6", ",", "U", "T", "C">>,
     <<"6", ",", "6", ",", "U", "T", "C">>,
     <<"6", ",", "1", "8", ",", "M", "a", "r", "s", "/", "B", "a", "s", "e">>}

CliSettings ==
    {[given |-> FALSE, text |-> <<>>]}
    \cup {[given |-> TRUE, text |-> t] : t \in CliSettingTexts}

InitCli ==
    /\ cli_in \in [business_hours : CliSettings,
                   all_alert_stats : BOOLEAN,
                   hours_of_operation : BOOLEAN,
                   average_alert_cycletime_summary : BOOLEAN]
    /\ cli_out = NoCall
    /\ mk_in = NoCall /\ mk_out = NoCall
    /\ cat_in = NoCall /\ cat_out = NoCall
    /\ agg_in = NoCall /\ agg_out = NoCall /\ dbt_out = NoCall
    /\ bh_in = NoCall /\ bh_out = NoCall
    /\ hop_in = NoCall /\ hop_out = NoCall
    /\ sqlite_db = NoCall /\ upd = NoCall /\ rd = NoCall
    /\ xl_in = NoCall /\ xl_out = NoCall
    /\ usr_in = NoCall /\ usr_out = NoCall
    /\ db_file = NoCall /\ thread = NoCall /\ main = NoCall
    /\ co_in = NoCall /\ co_out = NoCall
    /\ out_in = NoCall /\ out_out = NoCall
    /\ ex_in = NoCall /\ ex_out = NoCall

CallExecuteMetricArguments ==
    /\ cli_out = NoCall
    /\ cli_out' = execute_metric_arguments(cli_in)
    /\ UNCHANGED <<cli_in, mk_in, mk_out, cat_in, cat_out, agg_in, agg_out, dbt_out,
                   bh_in, bh_out, hop_in, hop_out, sqlite_db, upd, rd, xl_in, xl_out,
                  usr_in, usr_out,
                  db_file, thread, main,
                  co_in, co_out,
                  out_in, out_out,
                  ex_in, ex_out>>

NextCli == CallExecuteMetricArguments

SpecCli == InitCli /\ [][NextCli]_vars

(***************************************************************************)
(* Alert quantities by analyst: metrics/alerts/users.py                    *)
(* alert_quantities_by_user_by_month.  The connection is the list of the   *)
(* usernames of get_all_users and the rows that the                        *)
(* ALERTS_BY_MONTH_AND_USER_QUERY of metrics/alerts/__init__.py has for a  *)
(* month and a username: no row, or a row with a count.                    *)
(***************************************************************************)
\* lines 92-93: cursor.execute(query, (month, username)); cursor.fetchone()
fetch_month_user_count(con, month, username) ==
    IF \E r \in con.rows : r.month = month /\ r.username = username
    THEN <<(CHOOSE r \in con.rows : r.month = month /\ r.username = username).count>>
    ELSE <<>>

\* lines 90-95: the months of one user that have a row
RECURSIVE user_month_data(_, _, _, _, _)
user_month_data(month_data, con, username, months, k) ==
    IF k > Len(months) THEN month_data
    ELSE LET stats == fetch_month_user_count(con, months[k], username)
         IN  user_month_data(IF stats # <<>>
                             THEN DictSet(month_data, months[k], stats[1])
                             ELSE month_data,
                             con, username, months, k + 1)

\* lines 88-98: the users that are recorded
RECURSIVE user_data(_, _, _, _, _)
user_data(data, con, months, exclude_analysts_without_data, u) ==
    IF u > Len(con.users) THEN data
    ELSE LET month_data == user_month_data(<<>>, con, con.users[u], months, 1)
         IN  user_data(IF month_data # <<>> /\ exclude_analysts_without_data
                       THEN DictSet(data, con.users[u], month_data)
                       ELSE data,
                       con, months, exclude_analysts_without_data, u + 1)

\* line 102: fillna(value=0)
fillna(df) ==
    [columns |-> df.columns,
     index |-> df.index,
     cell |-> [c \in DOMAIN df.cell |->
                 [m \in DOMAIN df.cell[c] |->
                     IF df.cell[c][m] = <<>> THEN 0 ELSE df.cell[c][m][1]]]]

alert_quantities_by_user_by_month(start_date, end_date, con, exclude_analysts_without_data) ==
    LET mk == get_month_keys_between_two_dates(start_date, end_date)
    IN  IF mk.status = "hang" THEN [status |-> "hang"]
        ELSE [status |-> "returned",
              months |-> mk.months,
              table |-> fillna(DataFrame(
                            user_data(<<>>, con, mk.months,
                                      exclude_analysts_without_data, 1)))]

(***************************************************************************)
(* Specification of the alert quantities by analyst                        *)
(***************************************************************************)
UsrUsers == {<<>>, <<"alice">>, <<"alice", "bob">>}

\* the counts of the rows of the query
UsrCounts == {0, 3}

\* the rows of the query: at most one for a month and a username
UsrRows ==
    {rows \in SUBSET [month : CatDbMonths, username : {"alice", "bob"},
                      count : UsrCounts] :
        \A r, s \in rows : (r.month = s.month /\ r.username = s.username) => r = s}

InitUsers ==
    /\ usr_in \in [start_date : {r[1] : r \in CatRanges},
                   end_date : {r[2] : r \in CatRanges},
                   con : [users : UsrUsers, rows : UsrRows],
                   exclude_analysts_without_data : BOOLEAN]
    /\ <<usr_in.start_date, usr_in.end_date>> \in CatRanges
    /\ usr_out = NoCall
    /\ mk_in = NoCall /\ mk_out = NoCall
    /\ cat_in = NoCall /\ cat_out = NoCall
    /\ agg_in = NoCall /\ agg_out = NoCall /\ dbt_out = NoCall
    /\ bh_in = NoCall /\ bh_out = NoCall
    /\ hop_in = NoCall /\ hop_out = NoCall
    /\ sqlite_db = NoCall /\ upd = NoCall /\ rd = NoCall
    /\ xl_in = NoCall /\ xl_out = NoCall
    /\ cli_in = NoCall /\ cli_out = NoCall
    /\ db_file = NoCall /\ thread = NoCall /\ main = NoCall
    /\ co_in = NoCall /\ co_out = NoCall
    /\ out_in = NoCall /\ out_out = NoCall
    /\ ex_in = NoCall /\ ex_out = NoCall

CallUserQuantities ==
    /\ usr_out = NoCall
    /\ usr_out' = alert_quantities_by_user_by_month(
                      usr_in.start_date, usr_in.end_date, usr_in.con,
                      usr_in.exclude_analysts_without_data)
    /\ UNCHANGED <<usr_in, mk_in, mk_out, cat_in, cat_out, agg_in, agg_out, dbt_out,
                   bh_in, bh_out, hop_in, hop_out, sqlite_db, upd, rd, xl_in, xl_out,
                   cli_in, cli_out,
                  db_file, thread, main,
                  co_in, co_out,
                  out_in, out_out,
                  ex_in, ex_out>>

NextUsers == CallUserQuantities

SpecUsers == InitUsers /\ [][NextUsers]_vars

(***************************************************************************)
(* Claims about the month-key generator                                    *)
(***************************************************************************)
MkCalled == mk_out # NoCall

\* C1: for start_date <= end_date the generator returns exactly one YYYYMM
\* key per calendar month from start_date's month through end_date's month,
\* ascending, without gap or duplicate, whatever the days of the month; the
\* length is the month span + 1.
C1_MonthKeysComplete ==
    (MkCalled /\ DateLeq(mk_in.start_date, mk_in.end_date)) =>
        /\ mk_out.status = "returned"
        /\ mk_out.months = KeysFromTo(mk_in.start_date, mk_in.end_date)
        /\ Len(mk_out.months) =
              MonthOrdinal(mk_in.end_date) - MonthOrdinal(mk_in.start_date) + 1

SameMonth(a, b) == a.y = b.y /\ a.m = b.m

C20_Terminates ==
    (MkCalled /\ DateLeq(mk_in.start_date, mk_in.end_date)) =>
        mk_out.status # "hang"

(***************************************************************************)
(* Claims about the category/type grouping engine                          *)
(***************************************************************************)
CatReturned == cat_out.status = "returned"

\* the caller's categories (by position) that have a prefix at starts with
MatchingCats(at) ==
    {c \in 1..Len(cat_in.alert_type_categories_key) :
        \E i \in 1..Len(cat_in.alert_type_categories_key[c][2]) :
            startswith(at, cat_in.alert_type_categories_key[c][2][i])}

FirstMatchingCat(at) ==
    CHOOSE c \in MatchingCats(at) : \A d \in MatchingCats(at) : c <= d

Unmatched == {at \in SetOfList(cat_out.alert_types) : MatchingCats(at) = {}}

ScenarioKey == <<<<"phish", <<email_scanner_>>>>, <<"network", <<ids_>>>>>>

\* the scenario: phish, network and other with one alert type each
ScenarioGrouping ==
    (/\ cat_in.alert_type_categories_key = ScenarioKey
     /\ SetOfList(cat_out.alert_types) = AlertTypeTexts) =>
        cat_out.alert_type_categories_map =
            <<<<"phish", <<email_scanner_v1>>>>,
              <<"network", <<ids_snort>>>>,
              <<"other", <<custom_tool_x>>>>>>

\* C4 (as stated): "other" holds exactly the observed alert types that start
\* with no configured prefix, and the output has an "other" column if and
\* only if that set is non-empty.
C4_OtherIffUnmatched ==
    CatReturned =>
        /\ InList("other", cat_out.table.columns) <=> Unmatched # {}
        /\ Unmatched # {} =>
              DictGet(cat_out.alert_type_categories_map, "other")
                  \in ListsOfSet(Unmatched)
        /\ ScenarioGrouping

\* C4 (amended): when some observed alert type starts with no configured
\* prefix, "other" holds exactly those types; the output has an "other"
\* column if and only if that set is non-empty or the caller's map itself
\* has a category named "other".
C4_OtherIffUnmatchedOrConfigured ==
    CatReturned =>
        /\ InList("other", cat_out.table.columns) <=>
              (Unmatched # {} \/ HasKey(cat_in.alert_type_categories_key, "other"))
        /\ Unmatched # {} =>
              DictGet(cat_out.alert_type_categories_map, "other")
                  \in ListsOfSet(Unmatched)
        /\ ScenarioGrouping

\* the scenario of the claim has been run
C4_Witness ==
    /\ CatReturned
    /\ cat_in.alert_type_categories_key = ScenarioKey
    /\ SetOfList(cat_out.alert_types) = AlertTypeTexts
    /\ cat_out.table.columns = <<"phish", "network", "other">>

\* the alerts of a month whose alert type is in the list of column c
AlertsOfCell(c, month) ==
    {a \in cat_in.con :
        /\ a.month = month
        /\ InList(a.alert_type, cat_out.alert_type_categories_map[c][2])}

\* C5: the returned table is a full months x categories grid: every
\* category of the final map, also one that matched no alert type, is a
\* column with a cell for every month key of the range; a cell is a count,
\* never a missing value, and is 0 when no alert matches.
C5_FullGrid ==
    CatReturned =>
        /\ cat_out.table.columns = DictKeys(cat_out.alert_type_categories_map)
        /\ \A c \in 1..Len(cat_out.table.columns) :
              \A k \in 1..Len(cat_out.months) :
                 LET month == cat_out.months[k]
                 IN  /\ month \in DOMAIN cat_out.table.cell[c]
                     /\ cat_out.table.cell[c][month] \in Nat
                     /\ AlertsOfCell(c, month) = {} =>
                           cat_out.table.cell[c][month] = 0

\* a two-month table with a configured category that matched nothing next to
\* a category with alerts
C5_Witness ==
    /\ CatReturned
    /\ Len(cat_out.months) = 2
    /\ \E c, d \in 1..Len(cat_out.table.columns) :
          /\ cat_out.alert_type_categories_map[c][2] = <<>>
          /\ cat_out.table.cell[c][cat_out.months[1]] = 0
          /\ cat_out.table.cell[d][cat_out.months[2]] > 0

(***************************************************************************)
(* Claims about the statistics aggregator                                  *)
(***************************************************************************)
AggReturned == agg_out.status = "returned"

Stats == SetOfList(VALID_ALERT_STATS)

Categories == SetOfList(DISPOSITION_CATEGORIES)

\* the value 0 of a table: the integer, or the fraction 0/1
ZeroOf(stat) ==
    IF stat \in {"cycle_time_mean", "cycle_time_std"} THEN [n |-> 0, d |-> 1] ELSE 0

InsertKeys == {MonthKey(agg_in.records[i].insert_date) : i \in 1..Len(agg_in.records)}

\* the first and the last month of the axis of the call: of the supplied
\* range, or else of the insertion months observed
AxisFirst ==
    IF agg_in.range # NULL THEN MonthKey(agg_in.range.start_date)
    ELSE CHOOSE k \in InsertKeys : \A j \in InsertKeys : k <= j

AxisLast ==
    IF agg_in.range # NULL THEN MonthKey(agg_in.range.end_date)
    ELSE CHOOSE k \in InsertKeys : \A j \in InsertKeys : j <= k

\* every month key from the first to the last month of the axis
AxisKeys ==
    IF agg_in.range = NULL /\ InsertKeys = {} THEN {}
    ELSE {k \in AxisFirst..AxisLast : k % 100 \in 1..12}

\* the records (by position) inserted in a month
RecordsOfMonth(month) ==
    {i \in 1..Len(agg_in.records) : MonthKey(agg_in.records[i].insert_date) = month}

\* the records (by position) of a cell: inserted in the month, and of the
\* category, the ones without a listed disposition being undispositioned
RecordsOfCell(month, category) ==
    {i \in RecordsOfMonth(month) :
        IF agg_in.records[i].disposition \in Categories
        THEN agg_in.records[i].disposition = category
        ELSE category = "undispositioned"}

TimedOfCell(month, category) ==
    {i \in RecordsOfCell(month, category) :
        agg_in.records[i].disposition_date # NULL}

CycleTimeOf(i) ==
    elapsed_business_hours(agg_in.records[i].insert_date,
                           agg_in.records[i].disposition_date, agg_in.window)

RECURSIVE SumOfCycleTimes(_)
SumOfCycleTimes(S) ==
    IF S = {} THEN 0
    ELSE LET i == CHOOSE j \in S : TRUE
         IN  CycleTimeOf(i) + SumOfCycleTimes(S \ {i})

RECURSIVE SumOfCounts(_, _)
SumOfCounts(month, cats) ==
    IF cats = {} THEN 0
    ELSE LET c == CHOOSE d \in cats : TRUE
         IN  agg_out.tables["alert_count"].cell[<<month, c>>]
                + SumOfCounts(month, cats \ {c})

\* the insertion months of the alerts that get_alert_tables_by_month fetched
FetchedKeys ==
    {MonthKey(dbt_out.alerts[i].insert_date) : i \in 1..Len(dbt_out.alerts)}

\* every month key from the first to the last of them
FetchedAxisKeys ==
    {k \in 202301..202612 :
        /\ k % 100 \in 1..12
        /\ \E lo, hi \in FetchedKeys : lo <= k /\ k <= hi}

\* the statistic tables of the dashboard database
DbStatTableNames ==
    {"alert_count", "cycle_time_sum", "cycle_time_mean", "cycle_time_min",
     "cycle_time_max", "cycle_time_std", "cycle_time_sum_BH", "cycle_time_mean_BH",
     "cycle_time_min_BH", "cycle_time_max_BH", "cycle_time_std_BH"}

\* the statistic that a table of the dashboard database holds
StatOfTable(name) ==
    IF name \in Stats THEN name
    ELSE CHOOSE stat \in DOMAIN BH_NAME : BH_NAME[stat] = name

ScenarioRange == [start_date |-> Date(2024, 1, 1), end_date |-> Date(2024, 3, 31)]

ScenarioRecords ==
    <<[insert_date |-> Timestamp(2024, 2, 0),
       disposition |-> "false_positive",
       disposition_date |-> Timestamp(2024, 2, 10)]>>

InScenario ==
    /\ agg_in.range = ScenarioRange
    /\ agg_in.records = ScenarioRecords
    /\ agg_in.window = Disabled

C8_CountsAddUp ==
    AggReturned =>
        \A k \in 1..Len(agg_out.tables["alert_count"].index) :
            LET month == agg_out.tables["alert_count"].index[k]
            IN  /\ SumOfCounts(month, Categories) = Cardinality(RecordsOfMonth(month))
                /\ agg_out.tables["alert_count"].cell[<<month, "undispositioned">>] =
                      Cardinality({i \in RecordsOfMonth(month) :
                                      agg_in.records[i].disposition \notin Categories})

\* a month with a record of an unlisted disposition and one without
\* disposition, both counted
C8_Witness ==
    /\ AggReturned
    /\ \E k \in 1..Len(agg_out.tables["alert_count"].index) :
          LET month == agg_out.tables["alert_count"].index[k]
          IN  /\ \E i, j \in RecordsOfMonth(month) :
                    /\ agg_in.records[i].disposition = "bogus"
                    /\ agg_in.records[j].disposition = None
              /\ agg_out.tables["alert_count"].cell[<<month, "undispositioned">>] = 2

MinOfCycleTimes(S) ==
    IF S = {} THEN 0
    ELSE CycleTimeOf(CHOOSE i \in S : \A j \in S : CycleTimeOf(i) <= CycleTimeOf(j))

MaxOfCycleTimes(S) ==
    IF S = {} THEN 0
    ELSE CycleTimeOf(CHOOSE i \in S : \A j \in S : CycleTimeOf(j) <= CycleTimeOf(i))

\* C9: a record without disposition timestamp contributes to no cycle-time
\* statistic: sum, mean, min and max of a cell are those of its records
\* with a disposition timestamp, and the standard deviation of a cell with
\* fewer than two of them is 0; the record is counted in the count table
\* under undispositioned in its insertion month.
C9_OpenRecordsOnlyCounted ==
    AggReturned =>
        \A cell \in DOMAIN agg_out.tables["alert_count"].cell :
            LET timed == TimedOfCell(cell[1], cell[2])
                n == Cardinality(timed)
            IN  /\ agg_out.tables["cycle_time_sum"].cell[cell] = SumOfCycleTimes(timed)
                /\ agg_out.tables["cycle_time_min"].cell[cell] = MinOfCycleTimes(timed)
                /\ agg_out.tables["cycle_time_max"].cell[cell] = MaxOfCycleTimes(timed)
                /\ agg_out.tables["cycle_time_mean"].cell[cell].n
                      * (IF n = 0 THEN 1 ELSE n)
                   = SumOfCycleTimes(timed) * agg_out.tables["cycle_time_mean"].cell[cell].d
                /\ n <= 1 => agg_out.tables["cycle_time_std"].cell[cell] = [n |-> 0, d |-> 1]
                /\ cell[2] = "undispositioned" =>
                      agg_out.tables["alert_count"].cell[cell] >=
                         Cardinality({i \in RecordsOfMonth(cell[1]) :
                                         agg_in.records[i].disposition_date = NULL})

\* an undispositioned cell with one record without disposition timestamp and
\* one (of an unlisted disposition) with a cycle time
C9_Witness ==
    /\ AggReturned
    /\ \E cell \in DOMAIN agg_out.tables["alert_count"].cell :
          /\ cell[2] = "undispositioned"
          /\ agg_out.tables["alert_count"].cell[cell] = 2
          /\ Cardinality(TimedOfCell(cell[1], cell[2])) = 1
          /\ agg_out.tables["cycle_time_min"].cell[cell] > 0

BhReturned == bh_out.status = "returned"

\* C11: for a fixed start and a fixed enabled window the elapsed business
\* hours are not negative and do not decrease when the end increases.
C11_ElapsedMonotonic ==
    (/\ BhReturned
     /\ bh_in.window.enabled
     /\ AbsHour(bh_in.end1) <= AbsHour(bh_in.end2)) =>
        /\ 0 <= bh_out.elapsed1
        /\ bh_out.elapsed1 <= bh_out.elapsed2

\* Thursday 07:00 to Thursday 23:00 and to Friday 00:00 with the window
\* 6-18: eleven hours both times
C11_Witness ==
    /\ BhReturned
    /\ bh_in.window = BusinessTimeWindow(6, 18, {})
    /\ bh_in.start = Timestamp(2024, 2, 7)
    /\ bh_in.end1 = Timestamp(2024, 2, 23)
    /\ bh_in.end2 = Timestamp(2024, 2, 24)
    /\ bh_out.elapsed1 = 11
    /\ bh_out.elapsed2 = 11

\* the hours [t, t+1) from start to end that lie in the daily window of a
\* weekday that is no holiday
BusinessSlots(start, end, window) ==
    {t \in AbsHour(start)..(AbsHour(end) - 1) :
        /\ WeekdayOfDay(t \div 24) \in 0..4
        /\ (t \div 24) \notin window.holidays
        /\ window.start_hour <= t % 24
        /\ t % 24 < window.end_hour}

\* what C12 says of one end and the hours elapsed up to it
OnlyBusinessTimeCounts(end, elapsed) ==
    /\ elapsed = Cardinality(BusinessSlots(bh_in.start, end, bh_in.window))
    /\ BusinessSlots(bh_in.start, end, bh_in.window) = {} => elapsed = 0
    /\ (/\ bh_in.window = BusinessTimeWindow(6, 18, {})
        /\ AbsHour(bh_in.start) % 24 = 23
        /\ AbsHour(end) = AbsHour(bh_in.start) + 8
        /\ WeekdayOfDay(AbsHour(end) \div 24) \in 0..4) => elapsed = 1

\* C12: with an enabled window only the part of [start, end] inside the
\* daily window on business days is counted: 0 when start and end lie in
\* the same non-business interval, and 1 hour from 23:00 to 07:00 of the
\* next day, a business day, with the window 6-18.
C12_OnlyBusinessTimeCounts ==
    (BhReturned /\ bh_in.window.enabled) =>
        /\ OnlyBusinessTimeCounts(bh_in.end1, bh_out.elapsed1)
        /\ OnlyBusinessTimeCounts(bh_in.end2, bh_out.elapsed2)

\* from Thursday 23:00 it is one hour to Friday 07:00 and none to Friday
\* 00:00
C12_Witness ==
    /\ BhReturned
    /\ bh_in.window = BusinessTimeWindow(6, 18, {})
    /\ bh_in.start = Timestamp(2024, 2, 23)
    /\ bh_in.end1 = Timestamp(2024, 2, 24 + 7)
    /\ bh_out.elapsed1 = 1
    /\ bh_in.end2 = Timestamp(2024, 2, 24)
    /\ bh_out.elapsed2 = 0

(***************************************************************************)
(* Claims about the hours-of-operation summary                             *)
(***************************************************************************)
HopReturned == hop_out.status = "returned"

\* the disposed records inserted in a month
HopDisposedOfMonth(month) ==
    {i \in 1..Len(hop_in.records) :
        /\ hop_in.records[i].disposition_date # NULL
        /\ MonthKey(hop_in.records[i].insert_date) = month}

ComputationOf(rows, month) == rows[month]

\* C14: the tables that the background refresh publishes are atomic
\* snapshots: a table, or the tables of one call of fetch_data, that a
\* reader running next to update_database gets never have some of the rows
\* of the update from the new computation and others from the one before.
C14_AtomicSnapshot ==
    rd.pc = "returned" =>
        \A i, j \in 1..Len(rd.result.df_dict) : \A m, n \in UpdateMonths :
            ComputationOf(rd.result.df_dict[i][2], m)
                = ComputationOf(rd.result.df_dict[j][2], n)

\* C17: fetch_data raises ValueError if a requested name is not in
\* VALID_TABLE_NAMES; no statement is run with a name outside that list, and
\* nothing, not even a part of the result, is returned when it raises.
C17_OnlyValidTablesAreRead ==
    /\ \A i \in 1..Len(rd.sql) : rd.sql[i] \in SetOfList(VALID_TABLE_NAMES)
    /\ rd.pc = "returned" =>
          /\ \A i \in 1..Len(rd.tables) : rd.tables[i] \in SetOfList(VALID_TABLE_NAMES)
          /\ [i \in 1..Len(rd.result.df_dict) |-> rd.result.df_dict[i][1]] = rd.tables
    /\ rd.pc = "ValueError" =>
          /\ \E i \in 1..Len(rd.tables) : rd.tables[i] \notin SetOfList(VALID_TABLE_NAMES)
          /\ rd.result = NoCall
    /\ (rd.pc = "loop" /\ rd.i > 1) =>
          \A i \in 1..(rd.i - 1) : rd.tables[i] \in SetOfList(VALID_TABLE_NAMES)

\* a table of the database is read, then the next name is refused
C17_Witness ==
    /\ rd.pc = "ValueError"
    /\ rd.tables = <<"alert_count", "sqlite_master">>
    /\ rd.sql = <<"alert_count">>
    /\ Len(rd.df_dict) = 1
    /\ rd.result = NoCall

(***************************************************************************)
(* Claims about the export to a workbook                                   *)
(***************************************************************************)
XlReturned == xl_out.status = "returned"

\* C15: every tab name that dataframes_to_xlsx_bytes chooses has at most 31
\* characters, also the name chosen after a collision and the name of a
\* table without name.
C15_TabNamesAtMost31 ==
    XlReturned =>
        /\ \A i \in 1..Len(xl_out.tab_names) : Len(xl_out.tab_names[i]) <= 31
        /\ \A i \in 1..Len(xl_out.workbook) : Len(xl_out.workbook[i][1]) <= 31

\* a name cut to 31 characters, a name chosen after the collision of the
\* cut names, and the name of a table without name
C15_Witness ==
    /\ XlReturned
    /\ xl_in.tables = <<Named(XlLongHours), Named(XlLongDays),
                        [named |-> FALSE, name |-> <<>>]>>
    /\ Len(xl_out.tab_names[1]) = 31
    /\ SubSeq(xl_out.tab_names[2], 1, 9) = <<"C", "o", "l", "l", "i", "s", "i", "o", "n">>
    /\ SubSeq(xl_out.tab_names[3], 1, 2) = <<"N", "-">>

\* C16: a collision of tab names is resolved by a timestamp, so that the
\* tab names of the tables are pairwise distinct and every table is written
\* to a sheet of its own: k tables give k data sheets and no table replaces
\* another, also when three or more tables have the same cleaned name.
C16_EveryTableHasItsSheet ==
    XlReturned =>
        /\ \A i, j \in 1..Len(xl_out.tab_names) :
              i # j => xl_out.tab_names[i] # xl_out.tab_names[j]
        /\ Len(xl_out.workbook) = Len(xl_in.tables) + 1
        /\ \A i \in 1..Len(xl_in.tables) :
              \E s \in 1..Len(xl_out.workbook) : xl_out.workbook[s][2] = i

(***************************************************************************)
(* Claims about the business-hours setting of the command line             *)
(***************************************************************************)
CliCalled == cli_out # NoCall

CliFields == split(cli_in.business_hours.text, <<",">>)

\* the setting is given and is malformed: fewer than three fields, an hour
\* that is no number, an end hour that is not after the start hour, or a
\* time zone that is not recognized
CliMalformed ==
    /\ cli_in.business_hours.given
    /\ \/ Len(CliFields) < 3
       \/ \E i \in 1..2 : \E j \in 1..Len(strip(CliFields[i])) :
             strip(CliFields[i])[j] \notin SetOfList(digits)
       \/ \E i \in 1..2 : strip(CliFields[i]) = <<>>
       \/ value_of_digits(strip(CliFields[2])) <= value_of_digits(strip(CliFields[1]))
       \/ CliFields[3] \notin TIME_ZONES

CliErrors == {"IndexError", "ValueError", "InvalidConfigurationError", "exit(1)"}

\* C18: a malformed business-hours setting is rejected with an error
\* before any statistic is computed, and no default window is used in its
\* place.
C18_MalformedIsRejected ==
    (CliCalled /\ CliMalformed) =>
        /\ cli_out.status \in CliErrors
        /\ cli_out.computed = <<>>

\* what does hold of the setting of C18: a malformed setting that is not the
\* empty text ends with an error (IndexError, ValueError or
\* InvalidConfigurationError) before any statistic is computed; the empty
\* text is taken as no setting: the alert statistics are computed without
\* business hours, the hours of operation and the summary with the default
\* window.
NonEmptyMalformedIsRejected ==
    CliCalled =>
        /\ (CliMalformed /\ cli_in.business_hours.text # <<>>) =>
              /\ cli_out.status \in CliErrors \ {"exit(1)"}
              /\ cli_out.computed = <<>>
        /\ (cli_in.business_hours.given /\ cli_in.business_hours.text = <<>>) =>
              /\ cli_out.status = "returned"
              /\ \A i \in 1..Len(cli_out.computed) :
                    cli_out.computed[i][2] =
                        IF cli_out.computed[i][1] = "statistics_by_month_by_dispo"
                        THEN Disabled ELSE default_business_time

(***************************************************************************)
(* Claims about the alert quantities by analyst                            *)
(***************************************************************************)
UsrReturned == usr_out.status = "returned"

\* C19: for a date range of N months the table of
\* alert_quantities_by_user_by_month has exactly N rows, one per month key
\* in chronological order, with 0 in every cell without data, also when no
\* user has an alert in some month and when no user is recorded at all.
C19_AnalystRowsAreAllMonths ==
    UsrReturned =>
        /\ usr_out.table.index = usr_out.months
        /\ usr_out.months = KeysFromTo(usr_in.start_date, usr_in.end_date)
        /\ \A c \in DOMAIN usr_out.table.cell : \A m \in SetOfList(usr_out.months) :
              usr_out.table.cell[c][m] \in Nat

(***************************************************************************)
(* Claims about the start of the dashboard and its update thread           *)
(***************************************************************************)
\* C21: the thread of threaded_db_update runs for ever: after any point
\* update_database is called again, also after a call of update_database
\* that failed with an exception.
C21_RefreshForever == []<>(thread.pc = "update")

\* C22: the thread is started before initialize_database runs; however the
\* first update_database is interleaved with initialize_database, once both
\* have finished every table of the database holds rows for all months of
\* the scope of the initialization.
C22_InitializationNotSkipped ==
    (main.pc = "returned" /\ thread.updated) =>
        \A t \in SetOfList(DATABASE_TABLES) : DbMonths \subseteq DOMAIN db_file.tables[t]

\* C23: update_database only upserts rows keyed by the months of its
\* one-month-back window: in every table the rows of all earlier months are
\* left unchanged, and no row is ever deleted.
C23_EarlierMonthsUntouched ==
    [][\A t \in DOMAIN sqlite_db :
          /\ DOMAIN sqlite_db[t] \subseteq DOMAIN sqlite_db'[t]
          /\ \A m \in DOMAIN sqlite_db'[t] \ UpdateMonths :
                m \in DOMAIN sqlite_db[t] /\ sqlite_db'[t][m] = sqlite_db[t][m]]_vars

\* an update has written the rows of its window into a table that still has
\* the row of an earlier month as initialize_database wrote it
C23_Witness ==
    /\ upd.k >= 1
    /\ \E t \in DOMAIN sqlite_db :
          /\ \A m \in UpdateMonths : sqlite_db[t][m] = upd.k
          /\ \E m \in DOMAIN sqlite_db[t] \ UpdateMonths : sqlite_db[t][m] = 0

(***************************************************************************)
(* Claims about the final category map                                     *)
(***************************************************************************)
\* the number of places of the lists of the final category map that hold at
OccurrencesOf(at) ==
    Cardinality({p \in (1..Len(cat_out.alert_type_categories_map)) \X (1..MaxAlerts * 2) :
                    /\ p[2] <= Len(cat_out.alert_type_categories_map[p[1]][2])
                    /\ cat_out.alert_type_categories_map[p[1]][2][p[2]] = at})

RECURSIVE SumOfCategoryCounts(_, _)
SumOfCategoryCounts(m, c) ==
    IF c = 0 THEN 0
    ELSE cat_out.table.cell[c][m] + SumOfCategoryCounts(m, c - 1)

\* C24: the final category map is a partition of the observed alert types:
\* every observed alert type occurs exactly once over all category lists
\* (the caller's categories and "other"), also when it starts with several
\* prefixes of one category and when the caller's map has a category named
\* "other"; so the category counts of a month sum to the alerts of the month.
C24_CategoryMapIsPartition ==
    CatReturned =>
        /\ \A at \in SetOfList(cat_out.alert_types) : OccurrencesOf(at) = 1
        /\ \A m \in SetOfList(cat_out.months) :
              SumOfCategoryCounts(m, Len(cat_out.table.columns)) =
                 Cardinality({a \in cat_in.con : a.month = m})

\* C25: alert_quantities_by_user_by_month leaves a user out of the table
\* only when exclude_analysts_without_data is true and the user has no month
\* data; when it is false every user of get_all_users has a column.
C25_UserLeftOutOnlyWithoutData ==
    UsrReturned =>
        \A u \in SetOfList(usr_in.con.users) :
            InList(u, usr_out.table.columns)
            \/ /\ usr_in.exclude_analysts_without_data
               /\ \A m \in SetOfList(usr_out.months) :
                     fetch_month_user_count(usr_in.con, m, u) = <<>>

(***************************************************************************)
(* Claims about the command line: companies and output                     *)
(***************************************************************************)
\* C26: after the validation of the companies args.companies holds only
\* valid companies, for every list given (also with two or more invalid
\* names in a row); when no valid name remains the program exits before a
\* query for alerts or events is made.
C26_OnlyValidCompaniesRemain ==
    co_out # NoCall =>
        /\ \A c \in SetOfList(co_out.companies) : InList(c, co_in.valid_companies)
        /\ (/\ co_in.companies # <<>>
            /\ \A c \in SetOfList(co_in.companies) : ~InList(c, co_in.valid_companies))
              => co_out.status = "exit(0)"

\* C27: for every file output format the argument parser accepts (json and
\* xlsx), when at least one table was produced a file holding all produced
\* tables is written and the tables are not sent to stdout; with no accepted
\* format are the tables neither written nor printed.
C27_AcceptedFormatWritesFile ==
    (out_out # NoCall /\ out_in.fileout_format.given /\ out_in.tables # <<>>) =>
        /\ \E i \in 1..Len(out_out.files) : out_out.files[i].tables = out_in.tables
        /\ out_out.stdout = <<>>

(***************************************************************************)
(* Claims about the configured exceptions of the alert data                *)
(***************************************************************************)
\* the function an exception key stands for can be resolved
Resolves(exception_key) ==
    /\ HasKey(ALERT_DATA_EXCEPTIONS, exception_key)
    /\ LET split_path == SPLIT_MODULE_PATH(DictGet(ALERT_DATA_EXCEPTIONS, exception_key))
       IN  /\ split_path.matched
           /\ HasKey(MODULES, split_path.groups[1])
           /\ InList(split_path.groups[2], DictGet(MODULES, split_path.groups[1]))

\* the functions of the keys that can be resolved, in the order of the list
FunctionsInOrder(exception_list) ==
    LET resolved == SelectSeq(exception_list, Resolves)
    IN  [i \in 1..Len(resolved) |->
            SPLIT_MODULE_PATH(DictGet(ALERT_DATA_EXCEPTIONS, resolved[i])).groups[2]]

\* C28: apply_alert_data_exceptions applies the configured functions in the
\* order of exception_list, each to the result of the one before; a key that
\* cannot be resolved (not in the configuration, malformed module path,
\* import failure, missing function) is skipped and the other keys are
\* still applied, so a DataFrame is always returned.
C28_UnresolvedKeysAreSkipped ==
    ex_out # NoCall =>
        /\ ex_out.status = "returned"
        /\ ex_out.alerts = FunctionsInOrder(ex_in.exception_list)

====
